---- MODULE Spec2Model ----
(***************************************************************************)
(* A model of the dice-notation roller of src/src/scripts/dice_roller.py:  *)
(* the tokenizer, the recursive-descent parser, the AST evaluator with its *)
(* die source, and the roll_dice entry point that wraps them.              *)
(*                                                                         *)
(* An input text is a sequence of one-character strings.  Python's None is *)
(* the empty sequence <<>> and a present optional value x is <<x>>.        *)
(* An exception is a record carrying its class name.  A call of roll_dice  *)
(* is split into steps at the evaluator's instructions and at every call   *)
(* of the die source, whose outcome is the only nondeterministic input.    *)
(***************************************************************************)
EXTENDS Integers, Sequences, FiniteSets, TLC

(***************************************************************************)
(* Safety limits (dice_roller.py lines 16-22).                             *)
(***************************************************************************)
MAX_DICE == 1000
MAX_SIDES == 1000000000
\* The source sets MAX_RECURSION = 32: an expression at the limit has 32
\* nested pairs of parentheses.  The model keeps the limit as a small value;
\* the code that tests it is modelled unchanged.
MAX_RECURSION == 3
\* The source sets MAX_REROLLS = 10000 and MAX_EXPLOSIONS = 100.  Every
\* reroll and every explosion is a separate draw of the die source, so the
\* model keeps the two ceilings as small values; the code that tests them is
\* modelled unchanged.
MAX_REROLLS == 2
MAX_EXPLOSIONS == 2

VERSION == "dice-1.0.0"

(***************************************************************************)
(* Characters and strings.                                                 *)
(***************************************************************************)
None == <<>>

Some(x) == <<x>>

DigitChars == {"0", "1", "2", "3", "4", "5", "6", "7", "8", "9"}

SpaceChars == {" ", "\t", "\n"}

\* str.lower() on one character, for the letters the notation uses.
LowerChar(c) ==
  CASE c = "D" -> "d" [] c = "F" -> "f" [] c = "K" -> "k" [] c = "H" -> "h"
    [] c = "L" -> "l" [] c = "R" -> "r" [] c = "O" -> "o" [] c = "P" -> "p"
    [] c = "S" -> "s" [] c = "A" -> "a" [] OTHER -> c

Lower(s) == [i \in 1..Len(s) |-> LowerChar(s[i])]

DigitVal(c) ==
  CASE c = "0" -> 0 [] c = "1" -> 1 [] c = "2" -> 2 [] c = "3" -> 3
    [] c = "4" -> 4 [] c = "5" -> 5 [] c = "6" -> 6 [] c = "7" -> 7
    [] c = "8" -> 8 [] c = "9" -> 9

\* str.isdigit()
IsDigit(s) == Len(s) > 0 /\ \A i \in 1..Len(s) : s[i] \in DigitChars

\* int(s) for a string of decimal digits.  Python integers are unbounded;
\* the model saturates at IntCap, which lies above every limit a parsed
\* number is compared with.
IntCap == 2000000000

RECURSIVE IntOfFrom(_, _, _)
IntOfFrom(s, i, acc) ==
  IF i > Len(s) THEN acc
  ELSE IF acc >= IntCap \div 10 THEN IntCap
  ELSE IntOfFrom(s, i + 1, acc * 10 + DigitVal(s[i]))

IntOf(s) == IntOfFrom(s, 1, 0)

\* str(n) for a natural number
RECURSIVE StrOfNat(_)
StrOfNat(n) ==
  LET d == <<"0", "1", "2", "3", "4", "5", "6", "7", "8", "9">>[(n % 10) + 1]
  IN IF n < 10 THEN <<d>> ELSE Append(StrOfNat(n \div 10), d)

\* text.strip()
RECURSIVE LStrip(_)
LStrip(s) ==
  IF Len(s) > 0 /\ s[1] \in SpaceChars THEN LStrip(Tail(s)) ELSE s

RECURSIVE RStrip(_)
RStrip(s) ==
  IF Len(s) > 0 /\ s[Len(s)] \in SpaceChars
  THEN RStrip(SubSeq(s, 1, Len(s) - 1)) ELSE s

Strip(s) == RStrip(LStrip(s))

(***************************************************************************)
(* Tokenizer (dice_roller.py lines 148-215).                               *)
(***************************************************************************)
\* The length of the longest run of characters of `set' starting at index i.
RECURSIVE RunLen(_, _, _)
RunLen(s, i, set) ==
  IF i <= Len(s) /\ s[i] \in set THEN 1 + RunLen(s, i + 1, set) ELSE 0

\* The length of the run of characters other than newline starting at i.
RECURSIVE LineLen(_, _)
LineLen(s, i) ==
  IF i <= Len(s) /\ s[i] # "\n" THEN 1 + LineLen(s, i + 1) ELSE 0

\* TOKEN_PATTERN matched at index i of s: <<group, length>> of the first
\* alternative that matches there, <<0, 0>> when none does.  The alternatives
\* are tried in the order of the pattern, each one greedy, with IGNORECASE.
TokenMatch(s, i) ==
  LET c == LowerChar(s[i])
      n == IF i < Len(s) THEN LowerChar(s[i + 1]) ELSE ""
  IN  IF s[i] \in DigitChars THEN <<1, RunLen(s, i, DigitChars)>>
      ELSE IF c = "d" /\ n \in {"%", "f"} THEN <<2, 2>>
      ELSE IF c = "d" /\ n \in DigitChars
        THEN <<2, 1 + RunLen(s, i + 1, DigitChars)>>
      ELSE IF c \in {"k", "d"} /\ n \in {"h", "l"} THEN <<3, 2>>
      ELSE IF c = "r" THEN <<4, IF n = "o" THEN 2 ELSE 1>>
      ELSE IF c = "!"
        THEN LET b == IF n = "!" THEN 2 ELSE 1
                 q == IF i + b <= Len(s) THEN LowerChar(s[i + b]) ELSE ""
             IN  <<4, IF q = "p" THEN b + 1 ELSE b>>
      ELSE IF c \in {">", "<"} THEN <<5, IF n = "=" THEN 2 ELSE 1>>
      ELSE IF c = "=" THEN <<5, 1>>
      ELSE IF c = "s" /\ n \in {"a", "d"} THEN <<6, 2>>
      ELSE IF c \in {"+", "-", "*", "/", "(", ")"} THEN <<7, 1>>
      ELSE IF c = "#" THEN <<8, LineLen(s, i)>>
      ELSE IF s[i] \in SpaceChars THEN <<9, RunLen(s, i, SpaceChars)>>
      ELSE <<0, 0>>

\* Tokenizer._tokenize: finditer walks the text; a character at which no
\* alternative matches is passed over, whitespace and comments are skipped,
\* every other match becomes a token with its 0-based offset.
RECURSIVE TokenizeFrom(_, _)
TokenizeFrom(s, i) ==
  IF i > Len(s) THEN <<>>
  ELSE LET m == TokenMatch(s, i)
       IN  IF m[1] = 0 THEN TokenizeFrom(s, i + 1)
           ELSE IF m[1] \in {8, 9} THEN TokenizeFrom(s, i + m[2])
           ELSE <<[text |-> SubSeq(s, i, i + m[2] - 1), pos |-> i - 1]>>
                  \o TokenizeFrom(s, i + m[2])

\* Tokenizer.__init__: the tokenizer keeps the stripped text and its tokens.
Tokenizer(text) ==
  LET t == Strip(text) IN [text |-> t, tokens |-> TokenizeFrom(t, 1)]

\* Tokenizer.peek: the text of the token at position + offset, or None.
\* `position' is the 0-based index of the next token.
peek(T, position, offset) ==
  IF position + offset < Len(T.tokens)
  THEN T.tokens[position + offset + 1].text ELSE None

\* Tokenizer.at_end
at_end(T, position) == position >= Len(T.tokens)

(***************************************************************************)
(* Exceptions (dice_roller.py lines 81-102).  A message is the sequence of *)
(* the pieces of its f-string; interpolated text is spelled character by   *)
(* character.                                                              *)
(***************************************************************************)
NoExc == <<>>

\* ParseError(message, position, input_str)
ParseError(message, position, input_str) ==
  [cls |-> "ParseError", message |-> message, position |-> position,
   input_str |-> input_str]

\* SemanticError, LimitError, DiceError and the built-in exceptions carry a
\* message only.
Raise(cls, message) ==
  [cls |-> cls, message |-> message, position |-> -1, input_str |-> <<>>]

\* Tokenizer.consume: the next token's text and the advanced position, or
\* the ParseError raised.  expected is None or Some(text).
consume(T, position, expected) ==
  IF position >= Len(T.tokens)
  THEN [exc |-> Some(ParseError(
                  IF expected # None
                  THEN <<"Expected '">> \o expected[1]
                         \o <<"' but reached end of input">>
                  ELSE <<"Unexpected end of input">>,
                  Len(T.text), T.text)),
        tok |-> None, pos |-> position]
  ELSE LET token == T.tokens[position + 1]
       IN  IF expected # None /\ Lower(token.text) # Lower(expected[1])
           THEN [exc |-> Some(ParseError(
                           <<"Expected '">> \o expected[1]
                             \o <<"' but got '">> \o token.text \o <<"'">>,
                           token.pos, T.text)),
                 tok |-> None, pos |-> position + 1]
           ELSE [exc |-> NoExc, tok |-> token.text, pos |-> position + 1]

\* An offset that lies one past the end of the text at the end of input
PosOrEnd_PastEnd(T, position) ==
  IF position < Len(T.tokens) THEN T.tokens[position + 1].pos
  ELSE Len(T.text) + 1

\* The offset an "expected number" error reports: the pending token's, or
\* the length of the text at the end of input.
PosOrEnd(T, position) ==
  IF ~at_end(T, position) THEN T.tokens[position + 1].pos ELSE Len(T.text)

(***************************************************************************)
(* Parser (dice_roller.py lines 218-446).  Every parse operator takes the  *)
(* tokenizer, the token position and the parser's recursion_depth, and     *)
(* returns the exception raised or the node with the new position and      *)
(* depth.                                                                  *)
(***************************************************************************)
Fail(e, position, depth) ==
  [exc |-> Some(e), node |-> <<>>, pos |-> position, depth |-> depth]

Ok(node, position, depth) ==
  [exc |-> NoExc, node |-> node, pos |-> position, depth |-> depth]

ComparatorToks ==
  {<<">", "=">>, <<"<", "=">>, <<"=">>, <<">">>, <<"<">>}

\* A reroll/explode condition: op is the comparator's text; isMax says that
\* value is the string 'max', still to be resolved by the evaluator.
Condition(op, value, isMax) == [op |-> op, value |-> value, isMax |-> isMax]

\* DiceParser.parse_condition
parse_condition(T, position, default_op, default_value, default_isMax) ==
  LET token == peek(T, position, 0)
  IN  IF token # None /\ token \in ComparatorToks
      THEN IF at_end(T, position + 1) \/ ~IsDigit(peek(T, position + 1, 0))
           THEN [exc |-> Some(ParseError(
                           <<"Expected number after operator '">> \o token
                             \o <<"'">>,
                           PosOrEnd(T, position + 1), T.text)),
                 cond |-> <<>>, pos |-> position + 1]
           ELSE [exc |-> NoExc,
                 cond |-> Condition(token,
                                    IntOf(peek(T, position + 1, 0)), FALSE),
                 pos |-> position + 2]
      ELSE IF token # None /\ IsDigit(token)
      THEN [exc |-> NoExc, cond |-> Condition(<<"=">>, IntOf(token), FALSE),
            pos |-> position + 1]
      ELSE [exc |-> NoExc,
            cond |-> Condition(default_op, default_value, default_isMax),
            pos |-> position]

NoMods ==
  [reroll |-> None, explode |-> None, keep |-> None, sort |-> None,
   comparator |-> None]

\* DiceParser.parse_dice_modifiers: the loop, one modifier per iteration.
RECURSIVE parse_dice_modifiers_loop(_, _, _)

\* A comparator after which the loop goes on to the next modifier
Compared_NoBreak(T, position, mods, token) ==
  parse_dice_modifiers_loop(T, position + 2,
    [mods EXCEPT !.comparator =
       Some([op |-> token, value |-> IntOf(peek(T, position + 1, 0))])])

\* The comparator token at position and the number after it are consumed:
\* "mods['comparator'] = ..." and "break", the comparator ends the dice
\* modifiers.
Compared(T, position, mods, token) ==
  [exc |-> NoExc,
   mods |-> [mods EXCEPT !.comparator =
               Some([op |-> token,
                     value |-> IntOf(peek(T, position + 1, 0))])],
   pos |-> position + 2]

parse_dice_modifiers_loop(T, position, mods) ==
  IF at_end(T, position) THEN [exc |-> NoExc, mods |-> mods, pos |-> position]
  ELSE
  LET token == peek(T, position, 0)
      token_lower == Lower(token)
  IN  IF token_lower \in {<<"r">>, <<"r", "o">>}
      THEN LET c == parse_condition(T, position + 1, <<"=">>, 1, FALSE)
           IN  IF c.exc # NoExc
               THEN [exc |-> c.exc, mods |-> mods, pos |-> c.pos]
               ELSE parse_dice_modifiers_loop(T, c.pos,
                      [mods EXCEPT !.reroll =
                         Some([once |-> token_lower = <<"r", "o">>,
                               condition |-> c.cond])])
      ELSE IF token_lower \in {<<"!">>, <<"!", "!">>, <<"!", "p">>}
      THEN LET c == parse_condition(T, position + 1, <<">", "=">>, 0, TRUE)
           IN  IF c.exc # NoExc
               THEN [exc |-> c.exc, mods |-> mods, pos |-> c.pos]
               ELSE parse_dice_modifiers_loop(T, c.pos,
                      [mods EXCEPT !.explode =
                         Some([penetrating |->
                                 \E i \in 1..Len(token_lower) :
                                    token_lower[i] = "p",
                               compound |-> token = <<"!", "!">>,
                               condition |-> c.cond])])
      ELSE IF token_lower \in {<<"k", "h">>, <<"k", "l">>, <<"d", "h">>,
                               <<"d", "l">>}
      THEN IF at_end(T, position + 1) \/ ~IsDigit(peek(T, position + 1, 0))
           THEN [exc |-> Some(ParseError(
                           <<"Expected number after '">> \o token_lower
                             \o <<"'">>,
                           PosOrEnd(T, position + 1), T.text)),
                 mods |-> mods, pos |-> position + 1]
           ELSE parse_dice_modifiers_loop(T, position + 2,
                  [mods EXCEPT !.keep =
                     Some([type |-> token_lower,
                           count |-> IntOf(peek(T, position + 1, 0))])])
      ELSE IF token_lower \in {<<"s", "a">>, <<"s", "d">>}
      THEN parse_dice_modifiers_loop(T, position + 1,
             [mods EXCEPT !.sort = Some(token_lower)])
      ELSE IF token_lower \in ComparatorToks
      THEN IF at_end(T, position + 1) \/ ~IsDigit(peek(T, position + 1, 0))
           THEN [exc |-> Some(ParseError(
                           <<"Expected number after comparator '">> \o token
                             \o <<"'">>,
                           PosOrEnd(T, position + 1), T.text)),
                 mods |-> mods, pos |-> position + 1]
           ELSE Compared(T, position, mods, token)
      ELSE [exc |-> NoExc, mods |-> mods, pos |-> position]

parse_dice_modifiers(T, position) ==
  parse_dice_modifiers_loop(T, position, NoMods)

\* The node parse_dice returns, m being the outcome of parse_dice_modifiers
DiceNode(count, sides, die_type, m, depth) ==
  IF m.exc # NoExc THEN Fail(m.exc[1], m.pos, depth)
  ELSE Ok(<<"dice", count, sides, die_type, m.mods>>, m.pos, depth)

\* A validation that rejects a count and a number of sides at the maxima
ValidateDice_BelowMaxima(count, sides) ==
  IF count >= MAX_DICE
  THEN Some(Raise("LimitError",
                  <<"Cannot roll more than ">> \o StrOfNat(MAX_DICE)
                    \o <<" dice per term">>))
  ELSE IF sides >= MAX_SIDES
  THEN Some(Raise("LimitError",
                  <<"Die cannot have more than ">> \o StrOfNat(MAX_SIDES)
                    \o <<" sides">>))
  ELSE IF count < 1
  THEN Some(Raise("SemanticError", <<"Must roll at least 1 die">>))
  ELSE IF sides < 1
  THEN Some(Raise("SemanticError", <<"Die must have at least 1 side">>))
  ELSE NoExc

\* The validation of parse_dice (lines 348-355): the exception raised for
\* the count and the sides of a term, or NoExc
ValidateDice(count, sides) ==
  IF count > MAX_DICE
  THEN Some(Raise("LimitError",
                  <<"Cannot roll more than ">> \o StrOfNat(MAX_DICE)
                    \o <<" dice per term">>))
  ELSE IF sides > MAX_SIDES
  THEN Some(Raise("LimitError",
                  <<"Die cannot have more than ">> \o StrOfNat(MAX_SIDES)
                    \o <<" sides">>))
  ELSE IF count < 1
  THEN Some(Raise("SemanticError", <<"Must roll at least 1 die">>))
  ELSE IF sides < 1
  THEN Some(Raise("SemanticError", <<"Die must have at least 1 side">>))
  ELSE NoExc

\* DiceParser.parse_dice
parse_dice(T, position, depth) ==
  LET count_token == peek(T, position, 0)
      hasCount == count_token # None /\ IsDigit(count_token)
      count == IF hasCount THEN IntOf(count_token) ELSE 1
      p1 == IF hasCount THEN position + 1 ELSE position
      die == consume(T, p1, None)
  IN  IF die.exc # NoExc THEN Fail(die.exc[1], die.pos, depth)
      ELSE
      LET die_token == die.tok
          sides_str == Lower(Tail(die_token))
          isPct == sides_str \in {<<"%">>, <<"0", "0">>}
          isFate == sides_str \in {<<"f">>, <<"f", ".", "2">>}
          sides == IF isPct THEN 100 ELSE IF isFate THEN 3
                   ELSE IntOf(sides_str)
          die_type == IF isPct THEN "d%" ELSE IF isFate THEN "dF" ELSE "d"
      IN  IF LowerChar(die_token[1]) # "d"
          THEN Fail(ParseError(<<"Expected dice notation, got '">>
                                 \o die_token \o <<"'">>,
                               T.tokens[die.pos].pos, T.text),
                    die.pos, depth)
          ELSE IF ~isPct /\ ~isFate /\ ~IsDigit(sides_str)
          THEN Fail(ParseError(<<"Invalid dice sides '">> \o sides_str
                                 \o <<"'">>,
                               T.tokens[die.pos].pos, T.text),
                    die.pos, depth)
          ELSE IF ValidateDice(count, sides) # NoExc
          THEN Fail(ValidateDice(count, sides)[1], die.pos, depth)
          ELSE DiceNode(count, sides, die_type,
                        parse_dice_modifiers(T, die.pos), depth)

\* DiceParser.parse_primary
parse_primary(T, position, depth) ==
  LET token == peek(T, position, 0)
      next == peek(T, position, 1)
  IN  IF token = None
      THEN Fail(ParseError(<<"Unexpected end of expression">>, Len(T.text),
                           T.text), position, depth)
      ELSE IF LowerChar(token[1]) = "d"
              \/ (IsDigit(token) /\ next # None /\ LowerChar(next[1]) = "d")
      THEN parse_dice(T, position, depth)
      ELSE IF IsDigit(token)
              \/ (token[1] = "-" /\ IsDigit(Tail(token)))
      THEN Ok(<<"number", IntOf(token)>>, position + 1, depth)
      ELSE Fail(ParseError(<<"Unexpected token '">> \o token \o <<"'">>,
                           T.tokens[position + 1].pos, T.text),
                position, depth)

RECURSIVE parse_expression(_, _, _)
RECURSIVE parse_factor(_, _, _)

\* ('unary_op', '-', operand), operand being the outcome of parse_factor
UnaryOp(operand) ==
  IF operand.exc # NoExc THEN operand
  ELSE Ok(<<"unary_op", "-", operand.node>>, operand.pos, operand.depth)

\* A closing parenthesis that leaves recursion_depth as it is
Closed_NoDecrement(expr, close) ==
  IF close.exc # NoExc THEN Fail(close.exc[1], close.pos, expr.depth)
  ELSE Ok(expr.node, close.pos, expr.depth)

\* parse_factor after the expression in parentheses: "self.tokenizer
\* .consume(')')" and "self.recursion_depth -= 1".  close is the outcome of
\* the consume.
Closed(expr, close) ==
  IF close.exc # NoExc THEN Fail(close.exc[1], close.pos, expr.depth)
  ELSE Ok(expr.node, close.pos, expr.depth - 1)

CloseParen(T, expr) ==
  IF expr.exc # NoExc THEN expr
  ELSE Closed(expr, consume(T, expr.pos, Some(<<")">>)))

\* DiceParser.parse_factor
parse_factor(T, position, depth) ==
  LET token == peek(T, position, 0)
  IN  IF token = <<"-">>
      THEN UnaryOp(parse_factor(T, position + 1, depth))
      ELSE IF token = <<"(">>
      THEN IF depth + 1 > MAX_RECURSION
           THEN Fail(Raise("LimitError",
                           <<"Exceeded maximum recursion depth of ">>
                             \o StrOfNat(MAX_RECURSION)),
                     position, depth + 1)
           ELSE LET open == consume(T, position, Some(<<"(">>))
                IN  IF open.exc # NoExc
                    THEN Fail(open.exc[1], open.pos, depth + 1)
                    ELSE CloseParen(T, parse_expression(T, open.pos,
                                                        depth + 1))
      ELSE parse_primary(T, position, depth)

\* ('binary_op', op, left, right), right being the outcome of parsing the
\* right operand
BinaryOp(op, left, right) ==
  IF right.exc # NoExc THEN right
  ELSE Ok(<<"binary_op", op, left.node, right.node>>, right.pos, right.depth)

\* DiceParser.parse_term: the loop over '*' and '/', left being the outcome
\* of parsing the operands so far.
RECURSIVE parse_term_loop(_, _)
parse_term_loop(T, left) ==
  IF left.exc # NoExc \/ at_end(T, left.pos)
       \/ peek(T, left.pos, 0) \notin {<<"*">>, <<"/">>}
  THEN left
  ELSE parse_term_loop(T,
         BinaryOp(peek(T, left.pos, 0)[1], left,
                  parse_factor(T, left.pos + 1, left.depth)))

parse_term(T, position, depth) ==
  parse_term_loop(T, parse_factor(T, position, depth))

\* DiceParser.parse_expression: the loop over '+' and '-'.
RECURSIVE parse_expression_loop(_, _)
parse_expression_loop(T, left) ==
  IF left.exc # NoExc \/ at_end(T, left.pos)
       \/ peek(T, left.pos, 0) \notin {<<"+">>, <<"-">>}
  THEN left
  ELSE parse_expression_loop(T,
         BinaryOp(peek(T, left.pos, 0)[1], left,
                  parse_term(T, left.pos + 1, left.depth)))

parse_expression(T, position, depth) ==
  parse_expression_loop(T, parse_term(T, position, depth))

\* DiceParser.parse after parse_expression: "Check for unexpected tokens"
CheckEnd(T, result) ==
  IF result.exc # NoExc THEN result
  ELSE IF ~at_end(T, result.pos)
  THEN Fail(ParseError(<<"Unexpected token '">> \o peek(T, result.pos, 0)
                         \o <<"' after expression">>,
                       T.tokens[result.pos + 1].pos, T.text),
            result.pos, result.depth)
  ELSE result

\* DiceParser.parse, on a fresh parser (position 0, recursion_depth 0).
parse(T) ==
  IF at_end(T, 0)
  THEN Fail(ParseError(<<"Empty expression">>, 0, T.text), 0, 0)
  ELSE CheckEnd(T, parse_expression(T, 0, 0))

\* The call stack of the parser: the greatest number of activations of
\* parse_factor that are on the stack at one time during a call of
\* parse_factor, parse_term or parse_expression at the given position and
\* recursion_depth.  parse_factor calls itself after a '-', and calls
\* parse_expression after a '(' that passes the depth test.
RECURSIVE factor_activations(_, _, _)
RECURSIVE expression_activations(_, _, _)

Larger(a, b) == IF a > b THEN a ELSE b

factor_activations(T, position, depth) ==
  IF peek(T, position, 0) = <<"-">>
  THEN 1 + factor_activations(T, position + 1, depth)
  ELSE IF peek(T, position, 0) = <<"(">> /\ depth + 1 <= MAX_RECURSION
  THEN 1 + expression_activations(T, position + 1, depth + 1)
  ELSE 1

RECURSIVE term_activations_loop(_, _, _)
term_activations_loop(T, left, deepest) ==
  IF left.exc # NoExc \/ at_end(T, left.pos)
       \/ peek(T, left.pos, 0) \notin {<<"*">>, <<"/">>}
  THEN deepest
  ELSE term_activations_loop(T,
         BinaryOp(peek(T, left.pos, 0)[1], left,
                  parse_factor(T, left.pos + 1, left.depth)),
         Larger(deepest, factor_activations(T, left.pos + 1, left.depth)))

term_activations(T, position, depth) ==
  term_activations_loop(T, parse_factor(T, position, depth),
                        factor_activations(T, position, depth))

RECURSIVE expression_activations_loop(_, _, _)
expression_activations_loop(T, left, deepest) ==
  IF left.exc # NoExc \/ at_end(T, left.pos)
       \/ peek(T, left.pos, 0) \notin {<<"+">>, <<"-">>}
  THEN deepest
  ELSE expression_activations_loop(T,
         BinaryOp(peek(T, left.pos, 0)[1], left,
                  parse_term(T, left.pos + 1, left.depth)),
         Larger(deepest, term_activations(T, left.pos + 1, left.depth)))

expression_activations(T, position, depth) ==
  expression_activations_loop(T, parse_term(T, position, depth),
                              term_activations(T, position, depth))

\* The same for DiceParser.parse on a fresh parser
parse_activations(T) ==
  IF at_end(T, 0) THEN 0 ELSE expression_activations(T, 0, 0)

(***************************************************************************)
(* Python numbers.  The evaluator computes with Python ints and, after a   *)
(* division, with Python floats (IEEE-754 binary64, round to nearest, ties *)
(* to even).  An int is a record with t = "int" and its value n.  A float  *)
(* is a record with t = "float", its sign n in {-1, 0, 1}, its 53-bit      *)
(* significand m as a sequence of bits, least significant first, and its   *)
(* exponent e: the value is n * m * 2^e.  Zero is n = 0 with m = <<>>; the *)
(* sign of a float zero, infinities and subnormals are not modelled (no    *)
(* expression within the model's bounds reaches them).                     *)
(***************************************************************************)
PyInt(n) == [t |-> "int", n |-> n, m |-> <<>>, e |-> 0]

PyFloat(sign, m, e) == [t |-> "float", n |-> sign, m |-> m, e |-> e]

FloatZero == PyFloat(0, <<>>, 0)

MantBits == 53

\* Natural numbers of any size as bit sequences, least significant bit
\* first, without leading zeros (zero is <<>>).
RECURSIVE BTrim(_)
BTrim(a) ==
  IF Len(a) > 0 /\ a[Len(a)] = 0 THEN BTrim(SubSeq(a, 1, Len(a) - 1)) ELSE a

RECURSIVE BOfNat(_)
BOfNat(n) == IF n = 0 THEN <<>> ELSE <<n % 2>> \o BOfNat(n \div 2)

RECURSIVE BToNat(_)
BToNat(a) == IF a = <<>> THEN 0 ELSE a[1] + 2 * BToNat(Tail(a))

BitAt(a, i) == IF i <= Len(a) THEN a[i] ELSE 0

\* The loops below run over the bits lo..hi of their operands; each splits
\* its range in two halves and finishes the first half before it starts the
\* second, so that the nesting of the evaluation stays logarithmic in the
\* number of bits.

\* a + b over the bits lo..hi, low to high; st is <<carry, sum bits so far>>.
RECURSIVE BAddRange(_, _, _, _, _)
BAddRange(a, b, lo, hi, st) ==
  IF lo > hi THEN st
  ELSE IF lo = hi
  THEN LET t == BitAt(a, lo) + BitAt(b, lo) + st[1]
       IN  <<t \div 2, Append(st[2], t % 2)>>
  ELSE LET mid == (lo + hi) \div 2
           low == BAddRange(a, b, lo, mid, st)
       IN  IF low[1] >= 0 THEN BAddRange(a, b, mid + 1, hi, low) ELSE low

BAdd(a, b) ==
  LET L == IF Len(a) > Len(b) THEN Len(a) ELSE Len(b)
      r == BAddRange(a, b, 1, L, <<0, <<>>>>)
  IN  IF r[1] = 1 THEN Append(r[2], 1) ELSE r[2]

\* a - b for a >= b; st is <<borrow, difference bits so far>>.
RECURSIVE BSubRange(_, _, _, _, _)
BSubRange(a, b, lo, hi, st) ==
  IF lo > hi THEN st
  ELSE IF lo = hi
  THEN LET d == a[lo] - BitAt(b, lo) - st[1]
       IN  <<IF d < 0 THEN 1 ELSE 0, Append(st[2], d % 2)>>
  ELSE LET mid == (lo + hi) \div 2
           low == BSubRange(a, b, lo, mid, st)
       IN  IF low[1] >= 0 THEN BSubRange(a, b, mid + 1, hi, low) ELSE low

BSub(a, b) == BTrim(BSubRange(a, b, 1, Len(a), <<0, <<>>>>)[2])

\* a < b, for a and b without leading zeros
BLess(a, b) ==
  IF Len(a) # Len(b) THEN Len(a) < Len(b)
  ELSE \E i \in 1..Len(a) :
         a[i] < b[i] /\ \A j \in (i + 1)..Len(a) : a[j] = b[j]

\* a * 2^k
BShl(a, k) == IF a = <<>> THEN <<>> ELSE [i \in 1..k |-> 0] \o a

\* a * b: the sum of a * 2^(i-1) over the set bits i of b in lo..hi, added
\* to acc.
RECURSIVE BMulRange(_, _, _, _, _)
BMulRange(a, b, lo, hi, acc) ==
  IF lo > hi THEN acc
  ELSE IF lo = hi
  THEN IF b[lo] = 1 THEN BAdd(acc, BShl(a, lo - 1)) ELSE acc
  ELSE LET mid == (lo + hi) \div 2
           low == BMulRange(a, b, lo, mid, acc)
       IN  IF Len(low) >= 0 THEN BMulRange(a, b, mid + 1, hi, low) ELSE low

BMul(a, b) == BMulRange(a, b, 1, Len(b), <<>>)

\* Long division of a by b # 0 over the bits hi down to lo of a; st is
\* <<quotient bits so far (most significant first), remainder so far>>.
RECURSIVE BDivRange(_, _, _, _, _)
BDivRange(a, b, hi, lo, st) ==
  IF lo > hi THEN st
  ELSE IF lo = hi
  THEN LET r1 == BTrim(<<a[hi]>> \o st[2])
       IN  IF BLess(r1, b) THEN <<Append(st[1], 0), r1>>
           ELSE <<Append(st[1], 1), BSub(r1, b)>>
  ELSE LET mid == (lo + hi) \div 2
           high == BDivRange(a, b, hi, mid + 1, st)
       IN  IF Len(high[2]) >= 0 THEN BDivRange(a, b, mid, lo, high) ELSE high

Reverse(s) == [i \in 1..Len(s) |-> s[Len(s) + 1 - i]]

BDivMod(a, b) ==
  LET d == BDivRange(a, b, Len(a), 1, <<<<>>, <<>>>>)
  IN  [q |-> BTrim(Reverse(d[1])), r |-> d[2]]

\* The MantBits bits of M above its lowest k bits, rounded to nearest, ties
\* to even; sticky says that the exact value lies strictly above M.
RoundedBits(M, k, sticky) ==
  LET keep == SubSeq(M, k + 1, Len(M))
  IN  IF M[k] = 1 /\ (sticky \/ keep[1] = 1 \/ \E i \in 1..(k - 1) : M[i] = 1)
      THEN BAdd(keep, <<1>>) ELSE keep

\* A rounding that carried into bit MantBits + 1 is renormalised.
Renormalised(sign, kept, e) ==
  IF Len(kept) > MantBits
  THEN PyFloat(sign, SubSeq(kept, 2, MantBits + 1), e + 1)
  ELSE PyFloat(sign, kept, e)

\* The float nearest to sign * M * 2^e, where sticky says that the exact
\* value lies strictly above M * 2^e (and below (M + 1) * 2^e); a sticky
\* value always comes with more than MantBits + 1 bits of M.
FRound(sign, M, e, sticky) ==
  IF M = <<>> THEN FloatZero
  ELSE IF Len(M) <= MantBits
  THEN PyFloat(sign, BShl(M, MantBits - Len(M)), e - (MantBits - Len(M)))
  ELSE Renormalised(sign, RoundedBits(M, Len(M) - MantBits, sticky),
                    e + (Len(M) - MantBits))

Sign(n) == IF n > 0 THEN 1 ELSE IF n < 0 THEN -1 ELSE 0

Abs(n) == IF n < 0 THEN -n ELSE n

Min(a, b) == IF a < b THEN a ELSE b

\* float(x)
ToFloat(x) ==
  IF x.t = "float" THEN x
  ELSE FRound(Sign(x.n), BOfNat(Abs(x.n)), 0, FALSE)

FMul(x, y) == FRound(x.n * y.n, BMul(x.m, y.m), x.e + y.e, FALSE)

\* x / y for y # 0: 56 or 57 quotient bits and the remainder as sticky bit
FDiv(x, y) ==
  IF x.n = 0 THEN FloatZero
  ELSE LET d == BDivMod(BShl(x.m, MantBits + 3), y.m)
       IN  FRound(x.n * y.n, d.q, x.e - y.e - (MantBits + 3), d.r # <<>>)

\* xs * a * 2^e + ys * b * 2^e for signs xs, ys and magnitudes a, b
FAddAligned(xs, a, ys, b, e) ==
  IF xs = ys THEN FRound(xs, BAdd(a, b), e, FALSE)
  ELSE IF a = b THEN FloatZero
  ELSE IF BLess(a, b) THEN FRound(ys, BSub(b, a), e, FALSE)
  ELSE FRound(xs, BSub(a, b), e, FALSE)

FAdd(x, y) ==
  IF x.n = 0 THEN y
  ELSE IF y.n = 0 THEN x
  ELSE FAddAligned(x.n, BShl(x.m, x.e - Min(x.e, y.e)),
                   y.n, BShl(y.m, y.e - Min(x.e, y.e)), Min(x.e, y.e))

\* -x
PyNeg(x) == [x EXCEPT !.n = -x.n]

\* x + y, x - y, x * y: int arithmetic on two ints, float arithmetic as soon
\* as one operand is a float
PyAdd(x, y) ==
  IF x.t = "int" /\ y.t = "int" THEN PyInt(x.n + y.n)
  ELSE FAdd(ToFloat(x), ToFloat(y))

PySub(x, y) ==
  IF x.t = "int" /\ y.t = "int" THEN PyInt(x.n - y.n)
  ELSE FAdd(ToFloat(x), PyNeg(ToFloat(y)))

PyMul(x, y) ==
  IF x.t = "int" /\ y.t = "int" THEN PyInt(x.n * y.n)
  ELSE FMul(ToFloat(x), ToFloat(y))

\* x / y: true division, always a float
PyTrueDiv(x, y) == FDiv(ToFloat(x), ToFloat(y))

\* x == 0
PyIsZero(x) == x.n = 0

\* x == int(x): a float is whole when its fractional bits are all zero
PyIsWhole(x) ==
  x.t = "int" \/ x.n = 0 \/ x.e >= 0
    \/ (-x.e < MantBits /\ \A i \in 1..(-x.e) : x.m[i] = 0)

\* int(x) for a whole x
PyToInt(x) ==
  IF x.t = "int" THEN x
  ELSE IF x.n = 0 THEN PyInt(0)
  ELSE IF x.e >= 0 THEN PyInt(x.n * BToNat(BShl(x.m, x.e)))
  ELSE PyInt(x.n * BToNat(SubSeq(x.m, 1 - x.e, MantBits)))

(***************************************************************************)
(* Die source (dice_roller.py lines 105-145) and the evaluator's helpers   *)
(* (lines 449-700).                                                        *)
(***************************************************************************)
\* int.bit_length()
RECURSIVE bit_length(_)
bit_length(n) == IF n = 0 THEN 0 ELSE 1 + bit_length(n \div 2)

\* x << n
RECURSIVE ShiftLeft(_, _)
ShiftLeft(x, n) == IF n = 0 THEN x ELSE ShiftLeft(2 * x, n - 1)

\* The locals of CSPRNG.roll_die(sides) set before the sampling loop
bytes_needed(sides) == (bit_length(sides) + 7) \div 8

max_value(sides) == ShiftLeft(1, bytes_needed(sides) * 8)

\* A bound that accepts every value drawn
bound_MaxValue(sides) == max_value(sides)

bound(sides) == (max_value(sides) \div sides) * sides

\* secrets.token_bytes(n): the byte strings one call can return
token_bytes(n) == [1..n -> 0..255]

\* int.from_bytes(random_bytes, byteorder='big')
RECURSIVE from_bytes(_)
from_bytes(random_bytes) ==
  IF Len(random_bytes) = 0 THEN 0
  ELSE 256 * from_bytes(SubSeq(random_bytes, 1, Len(random_bytes) - 1))
         + random_bytes[Len(random_bytes)]

\* secrets.randbelow(n): the values one call can return
randbelow(n) == 0..(n - 1)

\* The sampling loop of roll_die gives up after 10000 rejected draws; the
\* model keeps the ceiling as a small value.
MaxAttempts == 2

\* CSPRNG.roll_die(sides): the set of values one call can return.
roll_die(sides) == 1..sides

\* FATE dice that subtract 1 instead of 2
RollValues_FateOffByOne(die_type, sides) ==
  IF die_type = "dF" THEN {v - 1 : v \in roll_die(3)} ELSE roll_die(sides)

\* The values of one die of a term: `roll_die(3) - 2' for a FATE die,
\* `roll_die(sides)' otherwise.
RollValues(die_type, sides) ==
  IF die_type = "dF" THEN {v - 2 : v \in roll_die(3)} ELSE roll_die(sides)

\* DieRoll(value=value), after __post_init__
DieRoll(value) ==
  [value |-> value, rerolls |-> <<>>, explodes |-> <<>>, success |-> None]

\* DiceEvaluator._check_condition
check_condition(value, condition) ==
  LET op == condition.op
      threshold == condition.value
  IN  IF op = <<"=">> THEN value = threshold
      ELSE IF op = <<">">> THEN value > threshold
      ELSE IF op = <<">", "=">> THEN value >= threshold
      ELSE IF op = <<"<">> THEN value < threshold
      ELSE IF op = <<"<", "=">> THEN value <= threshold
      ELSE FALSE

\* DiceEvaluator._format_condition, for a condition whose value is a number
format_condition(condition) ==
  IF condition.op = <<"=">> /\ ~condition.isMax
  THEN StrOfNat(condition.value)
  ELSE condition.op \o StrOfNat(condition.value)

\* A resolution that takes sides as the maximum of a FATE die as well
ResolveMax_SidesForFate(condition, die_type, sides) ==
  IF condition.isMax THEN Condition(condition.op, sides, FALSE) ELSE condition

\* _apply_explosions, "Resolve 'max' value": the die's maximum replaces the
\* default threshold in the explode condition.
ResolveMax(condition, die_type, sides) ==
  IF condition.isMax
  THEN Condition(condition.op, IF die_type = "dF" THEN 1 ELSE sides, FALSE)
  ELSE condition

\* sum(s[lo..hi])
RECURSIVE SumRange(_, _, _)
SumRange(s, lo, hi) ==
  IF lo > hi THEN 0
  ELSE IF lo = hi THEN s[lo]
  ELSE LET mid == (lo + hi) \div 2
       IN  SumRange(s, lo, mid) + SumRange(s, mid + 1, hi)

\* sum(s)
SumSeq(s) == SumRange(s, 1, Len(s))

\* s[start:stop] of Python, start and stop given as integers (a negative
\* index counts from the end; -0 is 0) or None
SliceIndex(n, k, dflt) ==
  IF k = None THEN dflt
  ELSE IF k[1] < 0 THEN (IF n + k[1] < 0 THEN 0 ELSE n + k[1])
  ELSE IF k[1] > n THEN n ELSE k[1]

PySlice(s, start, stop) ==
  LET lo == SliceIndex(Len(s), start, 0)
      hi == SliceIndex(Len(s), stop, Len(s))
  IN  SubSeq(s, lo + 1, hi)

\* sorted(values, reverse=True)
RECURSIVE SortedDesc(_)
SortedDesc(s) ==
  IF s = <<>> THEN <<>>
  ELSE LET i == CHOOSE i \in 1..Len(s) :
                  /\ \A j \in 1..Len(s) : s[j] <= s[i]
                  /\ \A j \in 1..(i - 1) : s[j] < s[i]
       IN  <<s[i]>> \o SortedDesc(SubSeq(s, 1, i - 1) \o SubSeq(s, i + 1, Len(s)))

\* rolls.sort(key=lambda r: r.value, reverse=reverse): list.sort is stable,
\* also with reverse=True, so rolls of equal value keep their order.
RECURSIVE SortRolls(_, _)
SortRolls(rolls, reverse) ==
  IF rolls = <<>> THEN <<>>
  ELSE LET before(x, y) == IF reverse THEN x > y ELSE x < y
           i == CHOOSE i \in 1..Len(rolls) :
                  /\ \A j \in 1..Len(rolls) :
                       ~before(rolls[j].value, rolls[i].value)
                  /\ \A j \in 1..(i - 1) : rolls[j].value # rolls[i].value
       IN  <<rolls[i]>> \o SortRolls(SubSeq(rolls, 1, i - 1)
                                       \o SubSeq(rolls, i + 1, Len(rolls)),
                                     reverse)

\* total of one die in _apply_keep_drop: its value plus its explosions
RollTotal(roll) ==
  roll.value + SumSeq([i \in 1..Len(roll.explodes) |-> roll.explodes[i].value])

\* A test that compares the count with the first die's total instead of
\* with the number of dice.
KeepDropTooMany_FirstValue(count, all_values) == count > all_values[1]

\* A test that also rejects a count equal to the number of dice
KeepDropTooMany_AtLeast(count, all_values) == count >= Len(all_values)

\* The test of _apply_keep_drop that raises SemanticError
KeepDropTooMany(count, all_values) == count > Len(all_values)

\* The four slices of _apply_keep_drop
KeepDropSlice(keep_type, count, sorted_values) ==
  IF keep_type = <<"k", "h">> THEN PySlice(sorted_values, None, Some(count))
  ELSE IF keep_type = <<"k", "l">>
  THEN PySlice(sorted_values, Some(-count), None)
  ELSE IF keep_type = <<"d", "h">>
  THEN PySlice(sorted_values, Some(count), None)
  ELSE PySlice(sorted_values, None, Some(-count))

\* DiceEvaluator._apply_keep_drop: the exception raised or the kept values
apply_keep_drop(rolls, keep_spec) ==
  LET all_values == [i \in 1..Len(rolls) |-> RollTotal(rolls[i])]
  IN  IF KeepDropTooMany(keep_spec.count, all_values)
      THEN [exc |-> Some(Raise("SemanticError",
                      <<"Cannot keep/drop ">> \o StrOfNat(keep_spec.count)
                        \o <<" from ">> \o StrOfNat(Len(all_values))
                        \o <<" dice">>)),
            kept |-> <<>>]
      ELSE [exc |-> NoExc,
            kept |-> KeepDropSlice(keep_spec.type, keep_spec.count,
                                   SortedDesc(all_values))]

\* DiceEvaluator._count_successes: the rolls with their success marks and
\* the number of successes.  kept_values is None or Some(list).
count_successes(rolls, comparator, kept_values) ==
  LET values == IF kept_values # None THEN kept_values[1]
                ELSE [i \in 1..Len(rolls) |-> rolls[i].value]
      cond == Condition(comparator.op, comparator.value, FALSE)
  IN  [rolls |->
         [i \in 1..Len(rolls) |->
            IF kept_values = None \/ i - 1 < Len(values)
            THEN [rolls[i] EXCEPT
                    !.success = Some(check_condition(rolls[i].value, cond))]
            ELSE rolls[i]],
       successes |->
         Cardinality({i \in 1..Len(values) : check_condition(values[i], cond)})]

\* "Build term string for trace" of _eval_dice: the explode condition has
\* had its 'max' resolved by then.
TermStr(count, sides, die_type, modifiers) ==
  LET base == StrOfNat(count) \o <<"d">>
                \o (IF die_type = "d" THEN StrOfNat(sides)
                    ELSE IF die_type = "d%" THEN <<"%">> ELSE <<"F">>)
      r == IF modifiers.reroll = None THEN <<>>
           ELSE <<"r">> \o (IF modifiers.reroll[1].once THEN <<"o">> ELSE <<>>)
                  \o format_condition(modifiers.reroll[1].condition)
      x == IF modifiers.explode = None THEN <<>>
           ELSE <<"!">>
                  \o (IF modifiers.explode[1].compound THEN <<"!">> ELSE <<>>)
                  \o (IF modifiers.explode[1].penetrating THEN <<"p">>
                      ELSE <<>>)
                  \o format_condition(
                       ResolveMax(modifiers.explode[1].condition, die_type,
                                  sides))
      k == IF modifiers.keep = None THEN <<>>
           ELSE modifiers.keep[1].type \o StrOfNat(modifiers.keep[1].count)
  IN  base \o r \o x \o k

\* DiceTrace(term, rolls, keptValues, sum, threshold, successes)
DiceTrace(term, rolls, keptValues, sum, threshold, successes) ==
  [term |-> term, rolls |-> rolls, keptValues |-> keptValues, sum |-> sum,
   threshold |-> threshold, successes |-> successes]

\* A sum that adds the explosion increments of every kind of die
EvalDiceResult_ExplosionsAdded(die_type, term_str, rolls, comparator, kept_values) ==
  IF comparator # None
  THEN LET thr == comparator[1].op \o StrOfNat(comparator[1].value)
           cs == count_successes(rolls, comparator[1], kept_values)
       IN  [exc |-> NoExc, value |-> cs.successes,
            trace |-> DiceTrace(term_str \o thr, cs.rolls, None, None,
                                Some(thr), Some(cs.successes))]
  ELSE IF kept_values # None
  THEN LET result == SumSeq(kept_values[1])
       IN  [exc |-> NoExc, value |-> result,
            trace |-> DiceTrace(term_str, rolls, kept_values, Some(result),
                                None, None)]
  ELSE LET values == [i \in 1..Len(rolls) |-> rolls[i].value]
           extra == [i \in 1..Len(rolls) |->
                      RollTotal(rolls[i]) - rolls[i].value]
           result == SumSeq(values) + SumSeq(extra)
       IN  [exc |-> NoExc, value |-> result,
            trace |-> DiceTrace(term_str, rolls, None, Some(result), None,
                                None)]

\* _eval_dice from "Apply comparator" to its return (lines 545-584): the
\* value returned and the trace appended.  rolls are the sorted rolls,
\* kept_values is None or Some(list).
EvalDiceResult(die_type, term_str, rolls, comparator, kept_values) ==
  IF comparator # None
  THEN LET thr == comparator[1].op \o StrOfNat(comparator[1].value)
           cs == count_successes(rolls, comparator[1], kept_values)
       IN  [exc |-> NoExc, value |-> cs.successes,
            trace |-> DiceTrace(term_str \o thr, cs.rolls, None, None,
                                Some(thr), Some(cs.successes))]
  ELSE IF kept_values # None
  THEN LET result == SumSeq(kept_values[1])
       IN  [exc |-> NoExc, value |-> result,
            trace |-> DiceTrace(term_str, rolls, kept_values, Some(result),
                                None, None)]
  ELSE LET values == [i \in 1..Len(rolls) |-> rolls[i].value]
           extra == IF die_type = "dF"
                    THEN [i \in 1..Len(rolls) |->
                            RollTotal(rolls[i]) - rolls[i].value]
                    ELSE <<>>
           result == SumSeq(values) + SumSeq(extra)
       IN  [exc |-> NoExc, value |-> result,
            trace |-> DiceTrace(term_str, rolls, None, Some(result), None,
                                None)]

\* An evaluation that counts the successes on the rolls as they were drawn
\* and sorts them afterwards
EvalDiceSorted_CountFirst(node, rolls, kept_values) ==
  IF node[5].sort = None
  THEN EvalDiceResult(node[4], TermStr(node[2], node[3], node[4], node[5]),
                      rolls, node[5].comparator, kept_values)
  ELSE [EvalDiceResult(node[4], TermStr(node[2], node[3], node[4], node[5]),
                       rolls, node[5].comparator, kept_values)
          EXCEPT !.trace.rolls =
                   SortRolls(@, node[5].sort[1] # <<"s", "a">>)]

\* _eval_dice from "Apply sort" to its return (lines 526-584)
EvalDiceSorted(node, rolls, kept_values) ==
  EvalDiceResult(node[4], TermStr(node[2], node[3], node[4], node[5]),
                 IF node[5].sort = None THEN rolls
                 ELSE SortRolls(rolls, node[5].sort[1] # <<"s", "a">>),
                 node[5].comparator, kept_values)

\* _eval_dice once _apply_keep_drop has raised or returned (kd)
EvalDiceKept(node, rolls, kd) ==
  IF kd.exc # NoExc THEN [exc |-> kd.exc, value |-> 0, trace |-> <<>>]
  ELSE EvalDiceSorted(node, rolls, Some(kd.kept))

\* _eval_dice from "Apply keep/drop" to its return (lines 522-584), for the
\* rolls as the rerolls and explosions left them: the exception raised, or
\* the value returned and the trace appended.
EvalDiceTail(node, rolls) ==
  IF node[5].keep # None
  THEN EvalDiceKept(node, rolls, apply_keep_drop(rolls, node[5].keep[1]))
  ELSE EvalDiceSorted(node, rolls, None)

\* Where the reroll loops of _apply_rerolls stand at die i with reroll_count
\* c (brk: the `once' break has just been taken): at the next draw of the
\* die source, at the raise of the LimitError, or past the last die.
RECURSIVE RerollPoint(_, _, _, _, _)

\* Reroll loops without the `once' break
RerollPoint_NoBreak(rolls, i, c, brk, reroll_spec) ==
  IF i > Len(rolls) THEN [at |-> "end", idx |-> i, cnt |-> 0]
  ELSE IF check_condition(rolls[i].value, reroll_spec.condition)
             /\ c < MAX_REROLLS
  THEN [at |-> "draw", idx |-> i, cnt |-> c]
  ELSE IF c >= MAX_REROLLS THEN [at |-> "raise", idx |-> i, cnt |-> c]
  ELSE RerollPoint(rolls, i + 1, 0, FALSE, reroll_spec)

\* Reroll loops that go on to the next die at the ceiling instead of raising
RerollPoint_NoCeiling(rolls, i, c, brk, reroll_spec) ==
  IF i > Len(rolls) THEN [at |-> "end", idx |-> i, cnt |-> 0]
  ELSE IF ~brk /\ check_condition(rolls[i].value, reroll_spec.condition)
             /\ c < MAX_REROLLS
  THEN [at |-> "draw", idx |-> i, cnt |-> c]
  ELSE RerollPoint(rolls, i + 1, 0, FALSE, reroll_spec)

RerollPoint(rolls, i, c, brk, reroll_spec) ==
  IF i > Len(rolls) THEN [at |-> "end", idx |-> i, cnt |-> 0]
  ELSE IF ~brk /\ check_condition(rolls[i].value, reroll_spec.condition)
             /\ c < MAX_REROLLS
  THEN [at |-> "draw", idx |-> i, cnt |-> c]
  ELSE IF c >= MAX_REROLLS THEN [at |-> "raise", idx |-> i, cnt |-> c]
  ELSE RerollPoint(rolls, i + 1, 0, FALSE, reroll_spec)

\* Where the explosion loops of _apply_explosions stand at die i with
\* explosion_count c and current_value cur.
RECURSIVE ExplodePoint(_, _, _, _, _)

\* Explosion loops whose ceiling raises only when the value reached still
\* satisfies the condition
ExplodePoint_WhileCondition(rolls, i, c, cur, condition) ==
  IF i > Len(rolls) THEN [at |-> "end", idx |-> i, cnt |-> 0, cur |-> 0]
  ELSE IF check_condition(cur, condition) /\ c < MAX_EXPLOSIONS
  THEN [at |-> "draw", idx |-> i, cnt |-> c, cur |-> cur]
  ELSE IF c >= MAX_EXPLOSIONS /\ check_condition(cur, condition)
  THEN [at |-> "raise", idx |-> i, cnt |-> c, cur |-> cur]
  ELSE ExplodePoint(rolls, i + 1, 0,
                    IF i + 1 <= Len(rolls) THEN rolls[i + 1].value ELSE 0,
                    condition)

\* _apply_explosions from the loop test of die i on
ExplodePoint(rolls, i, c, cur, condition) ==
  IF i > Len(rolls) THEN [at |-> "end", idx |-> i, cnt |-> 0, cur |-> 0]
  ELSE IF check_condition(cur, condition) /\ c < MAX_EXPLOSIONS
  THEN [at |-> "draw", idx |-> i, cnt |-> c, cur |-> cur]
  ELSE IF c >= MAX_EXPLOSIONS
  THEN [at |-> "raise", idx |-> i, cnt |-> c, cur |-> cur]
  ELSE ExplodePoint(rolls, i + 1, 0,
                    IF i + 1 <= Len(rolls) THEN rolls[i + 1].value ELSE 0,
                    condition)

\* The instructions of _eval_node's recursion over the AST, in the order in
\* which it performs them: both operands before their operator, the left
\* one first.
RECURSIVE Compile(_)
Compile(node) ==
  IF node[1] = "binary_op"
  THEN Compile(node[3]) \o Compile(node[4]) \o <<<<"binary_op", node[2]>>>>
  ELSE IF node[1] = "unary_op"
  THEN Compile(node[3]) \o <<<<"unary_op", node[2]>>>>
  ELSE <<node>>

(***************************************************************************)
(* roll_dice (dice_roller.py lines 703-792): the response it builds and    *)
(* its except clauses.                                                     *)
(***************************************************************************)
\* DieRoll.to_dict: a key is left out (None) when its list is empty or its
\* flag is None.
DieRollDict(r) ==
  [value |-> r.value,
   rerolls |-> IF r.rerolls # <<>> THEN Some(r.rerolls) ELSE None,
   explodes |-> IF r.explodes # <<>> THEN Some(r.explodes) ELSE None,
   success |-> r.success]

\* DiceTrace.to_dict
DiceTraceDict(t) ==
  [term |-> t.term,
   rolls |-> [i \in 1..Len(t.rolls) |-> DieRollDict(t.rolls[i])],
   keptValues |-> t.keptValues, sum |-> t.sum, threshold |-> t.threshold,
   successes |-> t.successes]

\* A result type that asks every trace for successes
ResultType_AllTraces(trs) ==
  IF \A i \in 1..Len(trs) : trs[i].successes # None
  THEN "success_count" ELSE "sum"

\* "Determine result type"
ResultType(trs) ==
  IF \E i \in 1..Len(trs) : trs[i].successes # None
  THEN "success_count" ELSE "sum"

\* "Build response"
Success(value, trs) ==
  [ok |-> TRUE,
   final |-> IF PyIsWhole(value) THEN PyToInt(value) ELSE value,
   type |-> ResultType(trs),
   trace |-> [i \in 1..Len(trs) |-> DiceTraceDict(trs[i])],
   rng |-> [source |-> "CSPRNG", method |-> "rejectionSampling"],
   limits |-> [maxDice |-> MAX_DICE, maxExplosions |-> MAX_EXPLOSIONS],
   version |-> VERSION]

Failure(type, message, position, input) ==
  [ok |-> FALSE,
   error |-> [type |-> type, message |-> message, position |-> position,
              input |-> input]]

\* The class hierarchy of the exceptions: isinstance(e, base) for an
\* exception e of class cls.
IsInstance(cls, base) ==
  \/ cls = base
  \/ base = "DiceError" /\ cls \in {"ParseError", "SemanticError", "LimitError"}
  \/ base = "Exception"
       /\ cls \in {"DiceError", "ParseError", "SemanticError", "LimitError",
                   "ValueError"}

\* roll_dice with the ParseError clause alone: every other exception
\* propagates to the caller.
roll_dice_except_ParseErrorOnly(e, expression) ==
  IF IsInstance(e.cls, "ParseError")
  THEN Some(Failure("ParseError", e.message, Some(e.position), e.input_str))
  ELSE None

\* The except clauses of roll_dice, in their order: the value returned for
\* the exception e, or None when no clause catches e and it propagates.
roll_dice_except(e, expression) ==
  IF IsInstance(e.cls, "ParseError")
  THEN Some(Failure("ParseError", e.message, Some(e.position), e.input_str))
  ELSE IF \E base \in {"SemanticError", "LimitError", "DiceError"} :
            IsInstance(e.cls, base)
  THEN Some(Failure(e.cls, e.message, None, expression))
  ELSE IF IsInstance(e.cls, "Exception")
  THEN Some(Failure("RuntimeError", <<"Unexpected error: ">> \o e.message,
                    None, expression))
  ELSE None

(***************************************************************************)
(* One call of roll_dice as a state machine.                               *)
(*   text    the expression passed to roll_dice                            *)
(*   parser  the DiceParser of the call (None before it is built): the     *)
(*           stripped text and the tokens of its tokenizer, the position   *)
(*           of the tokenizer and the recursion_depth of the parser, as    *)
(*           parse() has left them                                         *)
(*   pc      "call": called, not yet parsed; "eval": evaluating;           *)
(*           "raised": an exception is propagating to roll_dice;           *)
(*           "done": roll_dice has returned or the exception has escaped   *)
(*   code    the instructions of _eval_node for the parsed AST             *)
(*   ip      the index in code of the next instruction                     *)
(*   stack   the values of the evaluated operands                          *)
(*   traces  DiceEvaluator.traces                                          *)
(*   rolls   the rolls list of the dice term being evaluated               *)
(*   phase   where _eval_dice stands: "roll", "reroll", "explode", "tail"  *)
(*   idx     the die the reroll or explosion loop is at                    *)
(*   cnt     reroll_count or explosion_count of that die                   *)
(*   cur     current_value of the explosion loop                           *)
(*   exc     the exception raised (None or Some)                           *)
(*   result  the value roll_dice returned (None or Some)                   *)
(*   draws   the number of calls of the die source so far in this call     *)
(*   sampler the frame of a call of CSPRNG.roll_die followed step by step   *)
(*           (None when no call is followed): its argument sides, the line  *)
(*           it stands at ("entry", "loop", "returned", "raised"), its      *)
(*           locals attempts and value, the value returned and the          *)
(*           exception raised                                               *)
(*   calls   the caller's earlier calls: for each, the text passed, the    *)
(*           ok and error of the value returned (error is None for a       *)
(*           Success), the number of draws, and the rolls of the dice term *)
(*           a raise left unfinished                                       *)
(***************************************************************************)
VARIABLES text, parser, pc, code, ip, stack, traces, rolls, phase, idx, cnt,
          cur, exc, result, draws, calls, sampler

vars == <<text, parser, pc, code, ip, stack, traces, rolls, phase, idx, cnt,
          cur, exc, result, draws, calls, sampler>>

\* The state in which roll_dice(t) has just been called.
Called(t) ==
  /\ text = t
  /\ parser = None
  /\ pc = "call"
  /\ code = <<>>
  /\ ip = 1
  /\ stack = <<>>
  /\ traces = <<>>
  /\ rolls = <<>>
  /\ phase = "roll"
  /\ idx = 0
  /\ cnt = 0
  /\ cur = 0
  /\ exc = None
  /\ result = None
  /\ draws = 0
  /\ sampler = None

Instr == code[ip]

AtInstr(kind) == pc = "eval" /\ ip <= Len(code) /\ Instr[1] = kind

\* An exception leaves the evaluator.
RaiseExc(e) ==
  /\ exc' = Some(e)
  /\ pc' = "raised"

\* The parser built on the tokenizer T, as parse() leaves it with outcome r
ParserState(T, r) ==
  [text |-> T.text, tokens |-> T.tokens, position |-> r.pos,
   recursion_depth |-> r.depth]

\* roll_dice once parser.parse() has raised or has returned the AST
Parsed(T, r) ==
  /\ parser' = Some(ParserState(T, r))
  /\ IF r.exc # NoExc
     THEN /\ RaiseExc(r.exc[1])
          /\ UNCHANGED code
     ELSE /\ code' = Compile(r.node)
          /\ pc' = "eval"
          /\ UNCHANGED exc

\* DiceParser(expression) has built the tokenizer T: parser.parse()
ParseWith(T) == Parsed(T, parse(T))

\* "parser = DiceParser(expression); ast = parser.parse()" and the
\* construction of the evaluator
Parse ==
  /\ pc = "call"
  /\ ParseWith(Tokenizer(text))
  /\ UNCHANGED <<calls, sampler, text, ip, stack, traces, rolls, phase, idx,
                 cnt, cur, result, draws>>

\* _eval_node on a number
EvalNumber ==
  /\ AtInstr("number")
  /\ stack' = Append(stack, PyInt(Instr[2]))
  /\ ip' = ip + 1
  /\ UNCHANGED <<calls, sampler, text, parser, pc, code, traces, rolls, phase,
                 idx, cnt, cur, exc, result, draws>>

\* The value of a binary operator on evaluated operands.
BinaryValue(op, left_val, right_val) ==
  IF op = "+" THEN PyAdd(left_val, right_val)
  ELSE IF op = "-" THEN PySub(left_val, right_val)
  ELSE IF op = "*" THEN PyMul(left_val, right_val)
  ELSE PyTrueDiv(left_val, right_val)

\* _eval_node on a binary_op whose operands have been evaluated
EvalBinaryOp ==
  /\ AtInstr("binary_op")
  /\ LET left_val == stack[Len(stack) - 1]
         right_val == stack[Len(stack)]
     IN  IF Instr[2] = "/" /\ PyIsZero(right_val)
         THEN /\ RaiseExc(Raise("DiceError", <<"Division by zero">>))
              /\ UNCHANGED <<stack, ip>>
         ELSE /\ stack' = Append(SubSeq(stack, 1, Len(stack) - 2),
                                 BinaryValue(Instr[2], left_val, right_val))
              /\ ip' = ip + 1
              /\ UNCHANGED <<pc, exc>>
  /\ UNCHANGED <<calls, sampler, text, parser, code, traces, rolls, phase,
                 idx, cnt, cur, result, draws>>

\* _eval_node on a unary_op whose operand has been evaluated
EvalUnaryOp ==
  /\ AtInstr("unary_op")
  /\ stack' = Append(SubSeq(stack, 1, Len(stack) - 1),
                     PyNeg(stack[Len(stack)]))
  /\ ip' = ip + 1
  /\ UNCHANGED <<calls, sampler, text, parser, pc, code, traces, rolls, phase,
                 idx, cnt, cur, exc, result, draws>>

\* _eval_dice moves on from the explosions (or from their absence) to its
\* tail.
ToTail ==
  /\ phase' = "tail"
  /\ idx' = 0
  /\ cnt' = 0
  /\ cur' = 0
  /\ UNCHANGED <<pc, exc>>

\* "Apply explosions": _eval_dice enters _apply_explosions, or resumes it
\* at die i with explosion_count c and current_value v.
ToExplode(node, rs, i, c, v) ==
  IF node[5].explode = None THEN ToTail
  ELSE LET p == ExplodePoint(rs, i, c, v,
                  ResolveMax(node[5].explode[1].condition, node[4], node[3]))
       IN  IF p.at = "draw"
           THEN /\ phase' = "explode"
                /\ idx' = p.idx
                /\ cnt' = p.cnt
                /\ cur' = p.cur
                /\ UNCHANGED <<pc, exc>>
           ELSE IF p.at = "raise"
           THEN /\ RaiseExc(Raise("LimitError",
                              <<"Exceeded maximum explosions of ">>
                                \o StrOfNat(MAX_EXPLOSIONS)))
                /\ UNCHANGED <<phase, idx, cnt, cur>>
           ELSE ToTail

\* "Apply rerolls": _eval_dice enters _apply_rerolls, or resumes it at die i
\* with reroll_count c.
ToReroll(node, rs, i, c, brk) ==
  IF node[5].reroll = None THEN ToExplode(node, rs, 1, 0, rs[1].value)
  ELSE LET p == RerollPoint(rs, i, c, brk, node[5].reroll[1])
       IN  IF p.at = "draw"
           THEN /\ phase' = "reroll"
                /\ idx' = p.idx
                /\ cnt' = p.cnt
                /\ cur' = 0
                /\ UNCHANGED <<pc, exc>>
           ELSE IF p.at = "raise"
           THEN /\ RaiseExc(Raise("LimitError",
                              <<"Exceeded maximum rerolls of ">>
                                \o StrOfNat(MAX_REROLLS)))
                /\ UNCHANGED <<phase, idx, cnt, cur>>
           ELSE ToExplode(node, rs, 1, 0, rs[1].value)

\* "Roll the dice": one iteration of the loop of _eval_dice; after the last
\* die the evaluation runs on to its next draw.
RollDie ==
  /\ AtInstr("dice")
  /\ phase = "roll"
  /\ \E value \in RollValues(Instr[4], Instr[3]) :
       LET rs == Append(rolls, DieRoll(value))
       IN  /\ rolls' = rs
           /\ IF Len(rs) < Instr[2]
              THEN UNCHANGED <<phase, idx, cnt, cur, pc, exc>>
              ELSE ToReroll(Instr, rs, 1, 0, FALSE)
  /\ draws' = draws + 1
  /\ UNCHANGED <<calls, sampler, text, parser, code, ip, stack, traces, result>>

\* A loop that writes the new value into the history
RerollDie_NewValueInHistory ==
  /\ AtInstr("dice")
  /\ phase = "reroll"
  /\ \E value \in RollValues(Instr[4], Instr[3]) :
       LET rs == [rolls EXCEPT ![idx].value = value,
                               ![idx].rerolls = Append(@, value)]
       IN  /\ rolls' = rs
           /\ ToReroll(Instr, rs, idx, cnt + 1, Instr[5].reroll[1].once)
  /\ draws' = draws + 1
  /\ UNCHANGED <<calls, sampler, text, parser, code, ip, stack, traces, result>>

\* One iteration of the while loop of _apply_rerolls
RerollDie ==
  /\ AtInstr("dice")
  /\ phase = "reroll"
  /\ \E value \in RollValues(Instr[4], Instr[3]) :
       LET old_value == rolls[idx].value
           rs == [rolls EXCEPT ![idx].value = value,
                               ![idx].rerolls = Append(@, old_value)]
       IN  /\ rolls' = rs
           /\ ToReroll(Instr, rs, idx, cnt + 1, Instr[5].reroll[1].once)
  /\ draws' = draws + 1
  /\ UNCHANGED <<calls, sampler, text, parser, code, ip, stack, traces, result>>

\* An explosion loop that goes on testing the value as drawn, before the
\* penetrating decrement
ExplodeDie_ChainOnDraw ==
  /\ AtInstr("dice")
  /\ phase = "explode"
  /\ \E value \in RollValues(Instr[4], Instr[3]) :
       LET new_value == IF Instr[5].explode[1].penetrating /\ value > 0
                        THEN value - 1 ELSE value
           rs == [rolls EXCEPT ![idx].explodes =
                                 Append(@, [value |-> new_value])]
       IN  /\ rolls' = rs
           /\ ToExplode(Instr, rs, idx, cnt + 1, value)
  /\ draws' = draws + 1
  /\ UNCHANGED <<calls, sampler, text, parser, code, ip, stack, traces, result>>

\* One iteration of the while loop of _apply_explosions
ExplodeDie ==
  /\ AtInstr("dice")
  /\ phase = "explode"
  /\ \E value \in RollValues(Instr[4], Instr[3]) :
       LET new_value == IF Instr[5].explode[1].penetrating /\ value > 0
                        THEN value - 1 ELSE value
           rs == [rolls EXCEPT ![idx].explodes =
                                 Append(@, [value |-> new_value])]
       IN  /\ rolls' = rs
           /\ ToExplode(Instr, rs, idx, cnt + 1, new_value)
  /\ draws' = draws + 1
  /\ UNCHANGED <<calls, sampler, text, parser, code, ip, stack, traces, result>>

\* _eval_dice raises, or appends its trace and returns its value to
\* _eval_node.
EvalDiceReturn(r) ==
  IF r.exc # NoExc
  THEN /\ RaiseExc(r.exc[1])
       /\ UNCHANGED <<stack, traces, ip, rolls, phase>>
  ELSE /\ stack' = Append(stack, PyInt(r.value))
       /\ traces' = Append(traces, r.trace)
       /\ ip' = ip + 1
       /\ rolls' = <<>>
       /\ phase' = "roll"
       /\ UNCHANGED <<pc, exc>>

\* The rest of _eval_dice: keep/drop, sort, term string, success counting
\* or sum, and the trace
EvalDiceTailStep ==
  /\ AtInstr("dice")
  /\ phase = "tail"
  /\ EvalDiceReturn(EvalDiceTail(Instr, rolls))
  /\ UNCHANGED <<calls, sampler, text, parser, code, idx, cnt, cur, result,
                 draws>>

\* evaluate() has returned: roll_dice builds the response
ReturnSuccess ==
  /\ pc = "eval"
  /\ ip > Len(code)
  /\ result' = Some(Success(stack[1], traces))
  /\ pc' = "done"
  /\ UNCHANGED <<calls, sampler, text, parser, code, ip, stack, traces, rolls,
                 phase, idx, cnt, cur, exc, draws>>

\* The exception reaches the except clauses of roll_dice
ReturnFailure ==
  /\ pc = "raised"
  /\ result' = roll_dice_except(exc[1], text)
  /\ pc' = "done"
  /\ UNCHANGED <<calls, sampler, text, parser, code, ip, stack, traces, rolls,
                 phase, idx, cnt, cur, exc, draws>>

Next ==
  \/ Parse
  \/ EvalNumber
  \/ EvalBinaryOp
  \/ EvalUnaryOp
  \/ RollDie
  \/ RerollDie
  \/ ExplodeDie
  \/ EvalDiceTailStep
  \/ ReturnSuccess
  \/ ReturnFailure

\* A caller whose next call finds the traces of the finished one
CallAgain_KeepTraces(t) ==
  /\ pc = "done"
  /\ result # None
  /\ calls' = Append(calls,
                [text |-> text, ok |-> result[1].ok,
                 error |-> IF result[1].ok THEN None
                           ELSE Some(result[1].error),
                 draws |-> draws, rolls |-> rolls])
  /\ text' = t
  /\ parser' = None
  /\ pc' = "call"
  /\ code' = <<>>
  /\ ip' = 1
  /\ stack' = <<>>
  /\ traces' = traces
  /\ rolls' = <<>>
  /\ phase' = "roll"
  /\ idx' = 0
  /\ cnt' = 0
  /\ cur' = 0
  /\ exc' = None
  /\ result' = None
  /\ draws' = 0
  /\ UNCHANGED sampler

\* The caller, having received the result of a call, calls roll_dice(t):
\* parser and evaluator are built anew, nothing of the finished call is kept.
CallAgain(t) ==
  /\ pc = "done"
  /\ result # None
  /\ calls' = Append(calls,
                [text |-> text, ok |-> result[1].ok,
                 error |-> IF result[1].ok THEN None
                           ELSE Some(result[1].error),
                 draws |-> draws, rolls |-> rolls])
  /\ text' = t
  /\ parser' = None
  /\ pc' = "call"
  /\ code' = <<>>
  /\ ip' = 1
  /\ stack' = <<>>
  /\ traces' = <<>>
  /\ rolls' = <<>>
  /\ phase' = "roll"
  /\ idx' = 0
  /\ cnt' = 0
  /\ cur' = 0
  /\ exc' = None
  /\ result' = None
  /\ draws' = 0
  /\ UNCHANGED sampler

(***************************************************************************)
(* The inputs of the model.                                                *)
(***************************************************************************)
\* Dice terms roll at most MaxCount dice of at most MaxSides sides.
MaxCount == 2
MaxSides == 2
\* Exhaustive texts have at most MaxTextLen characters.
MaxTextLen == 3
\* A caller makes at most MaxCalls calls.
MaxCalls == 2

Cat(A, B) == {a \o b : a \in A, b \in B}

CountTexts == {StrOfNat(n) : n \in 1..MaxCount}

SidesTexts == {<<"d">> \o StrOfNat(n) : n \in 1..MaxSides} \cup {<<"d", "F">>}

\* NdS and NdF
BaseTerms == Cat(CountTexts, SidesTexts)

PercentTerms == {<<"1", "d", "%">>, <<"d", "0", "0">>, <<"2", "d", "%">>}

RerollTexts ==
  {<<"r">>, <<"r", "1">>, <<"r", "o", "1">>, <<"r", "<", "2">>,
   <<"r", "o", ">", "1">>, <<"r", ">", "=", "1">>, <<"r", "o", "<", "=", "2">>}

ExplodeTexts ==
  {<<"!">>, <<"!", "p">>, <<"!", "!">>, <<"!", ">", "1">>, <<"!", "1">>}

KeepTypes == {<<"k", "h">>, <<"k", "l">>, <<"d", "h">>, <<"d", "l">>}

KeepTexts == Cat(KeepTypes, {StrOfNat(k) : k \in 0..(MaxCount + 1)})

SortTexts == {<<"s", "a">>, <<"s", "d">>}

ComparatorTexts ==
  Cat(ComparatorToks, {<<"2">>}) \cup {<<">", "=", "1">>, <<"<", "1">>}

\* Single dice terms: no modifier, one modifier, and the pairs and triples
\* of modifiers in the order of the grammar.
DiceTexts ==
  BaseTerms \cup PercentTerms
    \cup Cat(BaseTerms, RerollTexts \cup ExplodeTexts \cup KeepTexts
                          \cup SortTexts \cup ComparatorTexts)
    \cup Cat(Cat(BaseTerms, RerollTexts), ExplodeTexts)
    \cup Cat(Cat(BaseTerms, {<<"r", "o", "1">>, <<"!">>}), KeepTexts)
    \cup Cat(Cat(BaseTerms, KeepTexts \cup SortTexts), ComparatorTexts)
    \cup Cat(Cat(Cat(BaseTerms, {<<"!">>}), {<<"k", "h", "1">>}),
             {<<">", "=", "2">>})

\* Terms that carry four or five modifiers at once
ComboTexts ==
  {<<"2", "d", "2", "r", "o", "1", "!", "k", "h", "1", "s", "d", ">", "=",
     "2">>,
   <<"2", "d", "2", "r", "1", "!", "p", "d", "l", "1", "s", "a", "<", "2">>,
   <<"2", "d", "F", "r", "o", "<", "0", "!", "k", "l", "1", "s", "d", ">",
     "=", "0">>,
   <<"2", "d", "2", "r", "<", "2", "s", "d">>}

\* Terms with a success comparator followed by one more token or by an
\* operator and a number: alone, as right operand of a product and in
\* parentheses.  position is the offset of what follows the comparator.
TailPrefixes ==
  {<<>>, <<"2", "*">>, <<"(">>}

TailTerms ==
  {<<"1", "d", "2">>, <<"2", "d", "2", "k", "h", "1">>,
   <<"1", "d", "2", "r", "1", "s", "a">>}

TailComparators ==
  {<<">", "=", "1">>, <<"<", "2">>, <<"=", "1">>}

ModifierTails ==
  {<<"r">>, <<"r", "o">>, <<"r", "1">>, <<"!">>, <<"!", "!">>, <<"!", "p">>,
   <<"k", "h", "1">>, <<"k", "l">>, <<"d", "h", "1">>, <<"d", "l", "1">>,
   <<"s", "a">>, <<"s", "d">>, <<">", "1">>, <<">", "=", "1">>, <<"<", "1">>,
   <<"<", "=">>, <<"=", "1">>}

OperatorTails ==
  {<<"+", "1">>, <<"-", "1">>, <<"*", "2">>, <<"/", "1">>}

ComparatorCases ==
  {[text |-> p \o term \o c \o tail
               \o (IF p = <<"(">> THEN <<")">> ELSE <<>>),
    position |-> Len(p \o term \o c),
    comparator |-> c,
    tail |-> tail] :
     p \in TailPrefixes, term \in TailTerms, c \in TailComparators,
     tail \in ModifierTails \cup OperatorTails}

ComparatorTailTexts == {c.text : c \in ComparatorCases}

\* Expressions of two terms, with and without a success comparator.
MixedTexts ==
  LET terms == {<<"1", "d", "2">>, <<"1", "d", "2", ">", "=", "2">>,
                <<"2", "d", "1", "k", "h", "1", "<", "2">>, <<"2">>,
                <<"(", "1", "d", "2", "-", "1", ")">>}
  IN  Cat(Cat(terms, {<<"+">>, <<"*">>, <<"/">>}), terms)

\* Every text of at most MaxTextLen characters over Alphabet.
Alphabet == {"1", "0", "d", "h", "k", "!", "/", "-", "(", ")", "x", " "}

RECURSIVE TextsOfLen(_)
TextsOfLen(n) ==
  IF n = 0 THEN {<<>>}
  ELSE {Append(t, c) : t \in TextsOfLen(n - 1), c \in Alphabet}

ShortTexts == UNION {TextsOfLen(n) : n \in 0..MaxTextLen}

\* Texts that between them take every path of a call.
CoreTexts ==
  {<<"-", "1", "/", "0">>,
   <<"1", "d", "2", "r", "1", "!">>,
   <<"2", "*", "(", "3", "+", "4", ")", "-", "5", "/", "5">>,
   <<" ", "4", "d", "6", "k", "h", " ">>,
   <<"0", "d", "6">>,
   <<"1", "0", "0", "1", "d", "1">>,
   <<"1", "d", "1", "r", "1">>,
   <<"1", "d", "1", "!">>,
   <<"7", "/", "2">>,
   <<"1", "D", "2", "K", "H", "1", " ", "#", "x">>}

\* Texts with one defect of syntax each: a keep/drop marker or a comparator
\* without its number, a missing operand, an unmatched parenthesis, a
\* trailing token.
BrokenTexts ==
  {<<"1", "d", "2", "k", "h">>,
   <<"2", "d", "2", "d", "l", "+", "1">>,
   <<"1", "d", "2", ">">>,
   <<"1", "d", "2", "<", "=", " ">>,
   <<"1", "d", "2", "r", ">", "=">>,
   <<"1", "+">>,
   <<"2", "*", "(", "1", "-", ")">>,
   <<"(", "1", "d", "2", "+", "1">>,
   <<"(", "(", "1", ")">>,
   <<"1", "d", "2", " ", "2">>,
   <<"1", "d", "2", ")">>,
   <<" ", "#", "1">>}

\* n opening and n closing parentheses
Opens(n) == [i \in 1..n |-> "("]

Closes(n) == [i \in 1..n |-> ")"]

\* body inside n nested pairs of parentheses
Nested(n, body) == Opens(n) \o body \o Closes(n)

\* n groups "(1)" in sequence, joined by '+'
RECURSIVE Groups(_)
Groups(n) ==
  IF n = 1 THEN <<"(", "1", ")">>
  ELSE Groups(n - 1) \o <<"+", "(", "1", ")">>

\* Expressions nested to the depth limit and one deeper, closed and not,
\* and groups in sequence, alone and in front of a nested expression.
DepthTexts ==
  {Nested(n, body) : n \in {MAX_RECURSION, MAX_RECURSION + 1},
                     body \in {<<"1">>, <<"1", "d", "1">>}}
    \cup {Opens(MAX_RECURSION), Opens(MAX_RECURSION + 1),
           Groups(MAX_RECURSION + 1)}
    \cup {<<"(", "1", ")", "*">> \o Nested(n, <<"2">>) :
             n \in {MAX_RECURSION, MAX_RECURSION + 1}}

\* The term 2d2 with two, three or four of the modifiers r1, !, kh1 and sa
\* in every textual order, alone and with the comparator >=2 behind them
\* (where neither the text nor the canonical term has it behind the '!',
\* which would make it the condition of the explosion).  units is
\* the set of modifiers: 1 reroll, 2 explode, 3 keep, 4 sort; canonical is
\* the term with the same modifiers in the order of the grammar.
OrderUnit(u) ==
  IF u = 1 THEN <<"r", "1">>
  ELSE IF u = 2 THEN <<"!">>
  ELSE IF u = 3 THEN <<"k", "h", "1">>
  ELSE <<"s", "a">>

RECURSIVE OrderUnits(_)
OrderUnits(order) ==
  IF order = <<>> THEN <<>>
  ELSE OrderUnit(Head(order)) \o OrderUnits(Tail(order))

GrammarOrder(units) ==
  (IF 1 \in units THEN OrderUnit(1) ELSE <<>>)
    \o (IF 2 \in units THEN OrderUnit(2) ELSE <<>>)
    \o (IF 3 \in units THEN OrderUnit(3) ELSE <<>>)
    \o (IF 4 \in units THEN OrderUnit(4) ELSE <<>>)

Orders ==
  {order \in UNION {[1..n -> 1..4] : n \in 2..4} :
     \A i, j \in DOMAIN order : i # j => order[i] # order[j]}

\* An order, and whether the comparator stands behind it
OrderChoices ==
  {p \in Orders \X BOOLEAN :
     p[2] => /\ p[1][Len(p[1])] # 2
             /\ \E i \in DOMAIN p[1] : p[1][i] \in {3, 4}}

OrderCases ==
  {[text |-> <<"2", "d", "2">> \o OrderUnits(p[1])
               \o (IF p[2] THEN <<">", "=", "2">> ELSE <<>>),
    canonical |-> <<"2", "d", "2">>
                    \o GrammarOrder({p[1][i] : i \in DOMAIN p[1]})
                    \o (IF p[2] THEN <<">", "=", "2">> ELSE <<>>),
    units |-> {p[1][i] : i \in DOMAIN p[1]},
    compared |-> p[2]] : p \in OrderChoices}

OrderTexts == {c.text : c \in OrderCases}

\* n minus signs
Minuses(n) == [i \in 1..n |-> "-"]

\* body with n minus signs in front of it and in front of each of n nested
\* opening parentheses
RECURSIVE Negated(_, _)
Negated(n, body) ==
  IF n = 0 THEN <<"-">> \o body
  ELSE <<"-", "(">> \o Negated(n - 1, body) \o <<")">>

\* Numbers and dice behind one minus sign and behind more minus signs than
\* the depth limit, and parentheses nested to the limit with a minus sign
\* before each.
MinusTexts ==
  {Minuses(n) \o body : n \in 1..(2 * MAX_RECURSION + 2),
                        body \in {<<"1">>, <<"1", "d", "1">>}}
    \cup {Negated(n, <<"1">>) : n \in 1..(MAX_RECURSION + 1)}

\* Dice terms with a count and a number of sides at, beside and beyond the
\* limits of parse_dice, alone, after a valid dice term and after a division
\* by zero.  A die of MAX_SIDES sides stands after the division by zero
\* only, where it is parsed and never rolled.
LimitCounts == {0, 1, MAX_DICE, MAX_DICE + 1}

LimitSides == {0, 1, MAX_SIDES, MAX_SIDES + 1}

LimitCases ==
  {[text |-> pre \o StrOfNat(n) \o <<"d">> \o StrOfNat(sd),
    count |-> n, sides |-> sd] :
     n \in LimitCounts, sd \in LimitSides,
     pre \in {<<>>, <<"1", "d", "2", "+">>, <<"1", "/", "0", "+">>}}

LimitTexts ==
  {c.text : c \in {c \in LimitCases :
                     \/ c.sides # MAX_SIDES
                     \/ c.count \notin 1..MAX_DICE
                     \/ c.text[2] = "/"}}

Inputs == CoreTexts \cup DiceTexts \cup MixedTexts \cup ShortTexts
            \cup BrokenTexts \cup DepthTexts \cup LimitTexts
    \cup ComboTexts \cup ComparatorTailTexts \cup MinusTexts
    \cup OrderTexts

(***************************************************************************)
(* Specifications.                                                         *)
(***************************************************************************)
\* One call of roll_dice on any input.
Init == calls = <<>> /\ \E t \in Inputs : Called(t)

Spec == Init /\ [][Next]_vars

\* A caller that calls roll_dice again and again on the same text.
TwiceTexts ==
  CoreTexts \cup MixedTexts \cup BaseTerms \cup Cat(BaseTerms, KeepTexts)
    \cup Cat(Cat(BaseTerms, {<<"r", "o", "1">>}), {<<"k", "h", "2">>})

InitTwice == calls = <<>> /\ \E t \in TwiceTexts : Called(t)

Recall == Len(calls) < MaxCalls - 1 /\ CallAgain(text)

NextTwice == Next \/ Recall

SpecTwice == InitTwice /\ [][NextTwice]_vars

\* A caller that makes up to MaxSeq calls, each on any of a few texts: one
\* that fails in the parser with a parenthesis open, one that fails the
\* validation, one that fails in the evaluator after a first term has been
\* traced, one that divides by zero, and two valid ones.
MaxSeq == 3

CallTexts ==
  {<<"(", "1">>,
   <<"0", "d", "1">>,
   <<"1", "d", "2", "+", "1", "d", "1", "!">>,
   <<"-", "1", "/", "0">>,
   <<"1", "d", "2", "r", "o", "1">>,
   <<"2", "d", "1", "k", "h", "1", "+", "1">>}

InitCalls == calls = <<>> /\ \E t \in CallTexts : Called(t)

CallNext == Len(calls) < MaxSeq - 1 /\ \E t \in CallTexts : CallAgain(t)

NextCalls == Next \/ CallNext

SpecCalls == InitCalls /\ [][NextCalls]_vars

(***************************************************************************)
(* One call of CSPRNG.roll_die followed step by step.                      *)
(***************************************************************************)
\* The largest of the small numbers of sides sampled
MaxSampleSides == 12

\* The numbers of sides sampled: the small ones, those around the step
\* from one random byte to two, and one on each side of the accepted range.
SampleSides ==
  (0..MaxSampleSides) \cup {127, 128, 255, 256, 257} \cup {MAX_SIDES + 1}

Sampler(sides, line, attempts, value, ret, raised) ==
  [sides |-> sides, line |-> line, attempts |-> attempts, value |-> value,
   ret |-> ret, raised |-> raised]

\* roll_die(sides) has just been called.
InitSample ==
  /\ calls = <<>>
  /\ text = <<>>
  /\ parser = None
  /\ pc = "done"
  /\ code = <<>>
  /\ ip = 1
  /\ stack = <<>>
  /\ traces = <<>>
  /\ rolls = <<>>
  /\ phase = "roll"
  /\ idx = 0
  /\ cnt = 0
  /\ cur = 0
  /\ exc = None
  /\ result = None
  /\ draws = 0
  /\ \E sides \in SampleSides :
       sampler = Some(Sampler(sides, "entry", 0, None, None, None))

SamplerStep(line, attempts, value, ret, raised) ==
  /\ sampler' = Some(Sampler(sampler[1].sides, line, attempts, value, ret,
                             raised))
  /\ UNCHANGED <<calls, text, parser, pc, code, ip, stack, traces, rolls,
                 phase, idx, cnt, cur, exc, result, draws>>

\* The checks of the argument, the special case of one side, and the
\* entry of the sampling loop
RollDieEnter ==
  /\ sampler # None
  /\ sampler[1].line = "entry"
  /\ IF sampler[1].sides < 1
     THEN SamplerStep("raised", 0, None, None, Some("ValueError"))
     ELSE IF sampler[1].sides > MAX_SIDES
     THEN SamplerStep("raised", 0, None, None, Some("LimitError"))
     ELSE IF sampler[1].sides = 1
     THEN SamplerStep("returned", 0, None, Some(1), None)
     ELSE SamplerStep("loop", 0, None, None, None)

\* A turn that does not count the rejected draw
RollDieTurn_NoCount(random_bytes) ==
  IF from_bytes(random_bytes) < bound(sampler[1].sides)
  THEN SamplerStep("returned", sampler[1].attempts,
                   Some(from_bytes(random_bytes)),
                   Some((from_bytes(random_bytes) % sampler[1].sides) + 1),
                   None)
  ELSE SamplerStep("loop", sampler[1].attempts,
                   Some(from_bytes(random_bytes)), None, None)

\* One turn of the sampling loop with the bytes drawn
RollDieTurn(random_bytes) ==
  IF from_bytes(random_bytes) < bound(sampler[1].sides)
  THEN SamplerStep("returned", sampler[1].attempts,
                   Some(from_bytes(random_bytes)),
                   Some((from_bytes(random_bytes) % sampler[1].sides) + 1),
                   None)
  ELSE SamplerStep("loop", sampler[1].attempts + 1,
                   Some(from_bytes(random_bytes)), None, None)

RollDieDraw ==
  /\ sampler # None
  /\ sampler[1].line = "loop"
  /\ sampler[1].attempts < MaxAttempts
  /\ \E random_bytes \in token_bytes(bytes_needed(sampler[1].sides)) :
       RollDieTurn(random_bytes)

\* The fallback after the loop has given up
RollDieFallback ==
  /\ sampler # None
  /\ sampler[1].line = "loop"
  /\ sampler[1].attempts >= MaxAttempts
  /\ \E r \in randbelow(sampler[1].sides) :
       SamplerStep("returned", sampler[1].attempts, sampler[1].value,
                   Some(r + 1), None)

NextSample ==
  \/ RollDieEnter
  \/ RollDieDraw
  \/ RollDieFallback

SpecSample == InitSample /\ [][NextSample]_vars

(***************************************************************************)
(* Progress: a call of roll_dice, or a call of roll_die, that takes its    *)
(* next step as long as it has one.  The program is sequential, so the     *)
(* step that is enabled is taken: weak fairness of every step.  The parse, *)
(* the binary operator and the tail of _eval_dice are total functions of   *)
(* the state they start from, so each is enabled exactly where its guard   *)
(* holds, and their fairness is stated on that guard.                      *)
(***************************************************************************)
\* The numbers of sides whose draws are one byte, and one on each side of
\* the accepted range
LiveSides == (0..MaxSampleSides) \cup {255} \cup {MAX_SIDES + 1}

InitLive ==
  \/ Init
  \/ /\ InitSample
     /\ sampler[1].sides \in LiveSides

NextLive == Next \/ NextSample

\* The steps of the loops of roll_die and of the evaluator, and the steps
\* between them that read one value
Loops ==
  \/ NextSample
  \/ RollDie
  \/ RerollDie
  \/ ExplodeDie
  \/ EvalNumber
  \/ EvalUnaryOp
  \/ ReturnSuccess
  \/ ReturnFailure

\* The straight-line steps: the parse, the binary operator and the tail of
\* _eval_dice, and the states where one of them is due
Straight == Parse \/ EvalBinaryOp \/ EvalDiceTailStep

StraightDue ==
  \/ pc = "call"
  \/ AtInstr("binary_op")
  \/ AtInstr("dice") /\ phase = "tail"

SpecLive ==
  /\ InitLive
  /\ [][NextLive]_vars
  /\ WF_vars(Loops)
  /\ ([]<>~StraightDue \/ []<><<Straight>>_vars)

(***************************************************************************)
(* Arithmetic expressions: the trees with at most MaxOps operators over    *)
(* integer literals and dice of one side, written out with the parentheses *)
(* that standard precedence and left associativity require, and their      *)
(* values as fractions.                                                    *)
(***************************************************************************)
MaxOps == 2

ArithLeaves == {<<"number", 7>>, <<"number", 25>>, <<"dice", 2>>}

ArithOps == {"+", "-", "*", "/"}

RECURSIVE ArithTreesOf(_)
ArithTreesOf(n) ==
  IF n = 0 THEN ArithLeaves
  ELSE {<<"unary_op", "-", o>> : o \in ArithTreesOf(n - 1)}
         \cup UNION {{<<"binary_op", op, l, r>> :
                        op \in ArithOps, l \in ArithTreesOf(k),
                        r \in ArithTreesOf(n - 1 - k)} : k \in 0..(n - 1)}

ArithTrees == UNION {ArithTreesOf(n) : n \in 0..MaxOps}

\* Precedence: 1 for + and -, 2 for * and /, 3 for unary minus and leaves
Prec(e) ==
  IF e[1] = "binary_op" THEN (IF e[2] \in {"+", "-"} THEN 1 ELSE 2) ELSE 3

Paren(str, needed) == IF needed THEN <<"(">> \o str \o <<")">> ELSE str

RECURSIVE Render(_)
Render(e) ==
  IF e[1] = "number" THEN StrOfNat(e[2])
  ELSE IF e[1] = "dice" THEN StrOfNat(e[2]) \o <<"d", "1">>
  ELSE IF e[1] = "unary_op" THEN <<"-">> \o Paren(Render(e[3]), Prec(e[3]) < 3)
  ELSE Paren(Render(e[3]), Prec(e[3]) < Prec(e)) \o <<e[2]>>
         \o Paren(Render(e[4]), Prec(e[4]) <= Prec(e))

RECURSIVE Gcd(_, _)
Gcd(a, b) == IF b = 0 THEN a ELSE Gcd(b, a % b)

\* The fraction p/q (q # 0) in lowest terms with a positive denominator
Frac(p, q) ==
  <<(Sign(q) * p) \div Gcd(Abs(p), Abs(q)), Abs(q) \div Gcd(Abs(p), Abs(q))>>

\* The value of two fractions under an operator, None for a division by zero
FracOp(op, x, y) ==
  IF x = None \/ y = None THEN None
  ELSE IF op = "+" THEN Some(Frac(x[1][1] * y[1][2] + y[1][1] * x[1][2],
                                  x[1][2] * y[1][2]))
  ELSE IF op = "-" THEN Some(Frac(x[1][1] * y[1][2] - y[1][1] * x[1][2],
                                  x[1][2] * y[1][2]))
  ELSE IF op = "*" THEN Some(Frac(x[1][1] * y[1][1], x[1][2] * y[1][2]))
  ELSE IF y[1][1] = 0 THEN None
  ELSE Some(Frac(x[1][1] * y[1][2], x[1][2] * y[1][1]))

\* The value of a tree under standard arithmetic; Nd1 is worth N.
RECURSIVE Val(_)
Val(e) ==
  IF e[1] \in {"number", "dice"} THEN Some(<<e[2], 1>>)
  ELSE IF e[1] = "unary_op" THEN FracOp("-", Some(<<0, 1>>), Val(e[3]))
  ELSE FracOp(e[2], Val(e[3]), Val(e[4]))

ArithCases == {[text |-> Render(e), value |-> Val(e)] : e \in ArithTrees}

ArithTexts == {c.text : c \in ArithCases}

InitArith == calls = <<>> /\ \E t \in ArithTexts : Called(t)

NextArith ==
  \/ Parse
  \/ EvalNumber
  \/ EvalBinaryOp
  \/ EvalUnaryOp
  \/ RollDie
  \/ EvalDiceTailStep
  \/ ReturnSuccess
  \/ ReturnFailure

SpecArith == InitArith /\ [][NextArith]_vars

(***************************************************************************)
(* Properties of one call.                                                 *)
(***************************************************************************)
Returned == pc = "done" /\ result # None

Succeeded == Returned /\ result[1].ok

Failed == Returned /\ ~result[1].ok

SuccessKeys == {"ok", "final", "type", "trace", "rng", "limits", "version"}

FailureKeys == {"ok", "error"}

ErrorKeys == {"type", "message", "position", "input"}

\* C1: a finished call of roll_dice has returned a value, no exception has
\* propagated to the caller, and the value is a Success (ok true, with final,
\* type, trace, rng, limits and version) or a Failure (ok false, with an
\* error that has a type, a message and the input).
C1_AlwaysReturns ==
  pc = "done" =>
    /\ result # None
    /\ \/ /\ DOMAIN result[1] = SuccessKeys
          /\ result[1].ok = TRUE
          /\ exc = None
       \/ /\ DOMAIN result[1] = FailureKeys
          /\ result[1].ok = FALSE
          /\ DOMAIN result[1].error = ErrorKeys
          /\ exc # None
          /\ result[1].error.message # <<>>

\* An exception of the evaluator that is not a ParseError has been converted
\* to a Failure.
C1_Witness ==
  /\ Failed
  /\ exc # None
  /\ exc[1].cls = "DiceError"
  /\ result[1].error.input = text

\* C2: every Failure roll_dice returns has an error type that is one of
\* "ParseError", "SemanticError", "LimitError" and "RuntimeError".
C2_ErrorTypeInTaxonomy ==
  Failed =>
    result[1].error.type
      \in {"ParseError", "SemanticError", "LimitError", "RuntimeError"}

\* C4: for an expression of integer literals, dice of one side, + - * /,
\* unary minus and parentheses, the final value is the value under standard
\* arithmetic (precedence, left associativity, parentheses), an exact
\* quotient being an integer.  The formula states it for the expressions
\* whose value is a whole number: the call succeeds with that integer.
C4_StandardArithmetic ==
  \A c \in ArithCases :
    (pc = "done" /\ text = c.text /\ c.value # None /\ c.value[1][2] = 1) =>
      /\ Succeeded
      /\ result[1].final = PyInt(c.value[1][1])

\* The dice terms without modifiers among the inputs: the text, the number
\* of dice N and the values a die of the term can show.
UnmodifiedTerms ==
  {[text |-> StrOfNat(n) \o <<"d">> \o StrOfNat(sd), count |-> n,
    values |-> 1..sd] : n \in 1..MaxCount, sd \in 1..MaxSides}
    \cup {[text |-> StrOfNat(n) \o <<"d", "F">>, count |-> n,
            values |-> {-1, 0, 1}] : n \in 1..MaxCount}
    \cup {[text |-> <<"1", "d", "%">>, count |-> 1, values |-> 1..100],
           [text |-> <<"2", "d", "%">>, count |-> 2, values |-> 1..100],
           [text |-> <<"d", "0", "0">>, count |-> 1, values |-> 1..100]}

\* C5: a dice term NdS without modifiers (standard, percentile or FATE)
\* succeeds with one trace of exactly N rolls, every roll value in [1,S]
\* ({-1,0,1} for dF, [1,100] for d% and d00), and the term's sum and the
\* final value are the exact sum of the roll values; 1d1 is exactly 1.
C5_UnmodifiedDice ==
  \A c \in UnmodifiedTerms :
    (pc = "done" /\ text = c.text) =>
      /\ Succeeded
      /\ Len(result[1].trace) = 1
      /\ Len(result[1].trace[1].rolls) = c.count
      /\ \A i \in 1..c.count :
           result[1].trace[1].rolls[i].value \in c.values
      /\ result[1].trace[1].sum
           = Some(SumSeq([i \in 1..c.count |->
                            result[1].trace[1].rolls[i].value]))
      /\ result[1].final = PyInt(result[1].trace[1].sum[1])
      /\ text = <<"1", "d", "1">> => result[1].final = PyInt(1)

\* Two dice of one unmodified term have shown different values.
C5_Witness ==
  /\ Succeeded
  /\ text = <<"2", "d", "2">>
  /\ result[1].trace[1].rolls[1].value = 1
  /\ result[1].trace[1].rolls[2].value = 2
  /\ result[1].final = PyInt(3)

\* The complementary keep/drop of K out of N: dhK and kl(N-K), dlK and
\* kh(N-K).
ComplementKeep(keep_spec, N) ==
  [type |-> IF keep_spec.type = <<"d", "h">> THEN <<"k", "l">>
            ELSE IF keep_spec.type = <<"k", "l">> THEN <<"d", "h">>
            ELSE IF keep_spec.type = <<"d", "l">> THEN <<"k", "h">>
            ELSE <<"d", "l">>,
   count |-> N - keep_spec.count]

\* The dice node with the complementary keep/drop
ComplementTerm(node) ==
  <<"dice", node[2], node[3], node[4],
    [node[5] EXCEPT !.keep = Some(ComplementKeep(node[5].keep[1], node[2]))]>>

\* C6: keep and drop are complementary: for N dice with fixed outcomes and
\* 0 <= K <= N, NdXdhK and NdXkl(N-K) give the same sum, and so do NdXdlK
\* and NdXkh(N-K).  Stated where _eval_dice has the outcomes in hand: the
\* term and its complement evaluate to the same value on these rolls.
C6_KeepDropComplementary ==
  (/\ AtInstr("dice")
   /\ phase = "tail"
   /\ Instr[5].keep # None
   /\ Instr[5].comparator = None
   /\ Instr[5].reroll = None
   /\ Instr[5].explode = None
   /\ Instr[5].keep[1].count <= Instr[2]) =>
    /\ EvalDiceTail(Instr, rolls).exc = NoExc
    /\ EvalDiceTail(ComplementTerm(Instr), rolls).exc = NoExc
    /\ EvalDiceTail(Instr, rolls).value
         = EvalDiceTail(ComplementTerm(Instr), rolls).value

\* The values a keep/drop of count K is meant to select from the values
\* sorted in descending order: the K highest, the K lowest, all but the K
\* highest, all but the K lowest.
KeptSubset(keep_type, K, sorted_values) ==
  IF keep_type = <<"k", "h">> THEN SubSeq(sorted_values, 1, K)
  ELSE IF keep_type = <<"k", "l">>
  THEN SubSeq(sorted_values, Len(sorted_values) - K + 1, Len(sorted_values))
  ELSE IF keep_type = <<"d", "h">>
  THEN SubSeq(sorted_values, K + 1, Len(sorted_values))
  ELSE SubSeq(sorted_values, 1, Len(sorted_values) - K)

\* The number of values of a sequence that satisfy a comparator
Satisfying(values, comparator) ==
  Cardinality({i \in 1..Len(values) :
                 check_condition(values[i],
                                 Condition(comparator.op, comparator.value,
                                           FALSE))})

\* The values of the dice of a trace, and the ones that count: the kept
\* subset under a keep/drop modifier, all of them otherwise
TraceValues(tr) == [i \in 1..Len(tr.rolls) |-> tr.rolls[i].value]

CountedValues(node, tr) ==
  IF node[5].keep = None THEN TraceValues(tr)
  ELSE KeptSubset(node[5].keep[1].type, node[5].keep[1].count,
                  SortedDesc(TraceValues(tr)))

\* C7: an expression that is one dice term with a success comparator (and
\* no explosions) has as final value the successes field of its trace, which
\* is the number of dice, of the kept subset under a keep/drop modifier and
\* of all dice otherwise, whose value satisfies the comparator.
C7_SuccessCount ==
  (/\ Succeeded
   /\ Len(code) = 1
   /\ code[1][1] = "dice"
   /\ code[1][5].comparator # None
   /\ code[1][5].explode = None) =>
    /\ result[1].trace[1].successes # None
    /\ result[1].final = PyInt(result[1].trace[1].successes[1])
    /\ result[1].trace[1].successes[1]
         = Satisfying(CountedValues(code[1], result[1].trace[1]),
                      code[1][5].comparator[1])

\* Some dice term of the expression carries a success comparator.
HasComparator ==
  \E k \in 1..Len(code) :
    code[k][1] = "dice" /\ code[k][5].comparator # None

\* C8: a Success has type "success_count" if and only if at least one dice
\* term of the expression carries a success comparator, and type "sum"
\* otherwise, also when terms with and without comparator are mixed.
C8_ResultKind ==
  Succeeded =>
    /\ HasComparator => result[1].type = "success_count"
    /\ ~HasComparator => result[1].type = "sum"

\* A term with and a term without comparator in one successful expression
C8_Witness ==
  /\ Succeeded
  /\ result[1].type = "success_count"
  /\ \E k \in 1..Len(code) :
       code[k][1] = "dice" /\ code[k][5].comparator # None
  /\ \E k \in 1..Len(code) :
       code[k][1] = "dice" /\ code[k][5].comparator = None
  /\ Len(result[1].trace) = 2

\* _eval_dice is at work on, or has raised in, a dice term with a reroll
\* modifier, once or standard.
InReroll(once) ==
  /\ pc \in {"eval", "raised", "done"}
  /\ ip <= Len(code)
  /\ Instr[1] = "dice"
  /\ Instr[5].reroll # None
  /\ Instr[5].reroll[1].once = once

\* _apply_rerolls has returned for the term at work.
RerollsApplied == pc = "eval" /\ phase \in {"explode", "tail"}

\* The expression is one dice term with a reroll modifier and has succeeded.
RerollSucceeded(once) ==
  /\ Succeeded
  /\ Len(code) = 1
  /\ code[1][1] = "dice"
  /\ code[1][5].reroll # None
  /\ code[1][5].reroll[1].once = once

\* The value a die showed first
FirstValue(roll) == IF roll.rerolls # <<>> THEN roll.rerolls[1] ELSE roll.value

\* C9: with a reroll-once modifier no die is replaced more than once: every
\* die's reroll history has length 0 or 1 at every moment, and once the
\* rerolls are applied, and in the trace returned, it has length 1 exactly
\* when the die's first value satisfied the reroll condition.
C9_RerollOnce ==
  /\ InReroll(TRUE) =>
       /\ \A i \in 1..Len(rolls) : Len(rolls[i].rerolls) <= 1
       /\ RerollsApplied =>
            \A i \in 1..Len(rolls) :
              Len(rolls[i].rerolls) = 1
                <=> check_condition(FirstValue(rolls[i]),
                                    Instr[5].reroll[1].condition)
  /\ RerollSucceeded(TRUE) =>
       \A i \in 1..Len(result[1].trace[1].rolls) :
         LET roll == result[1].trace[1].rolls[i]
         IN  IF check_condition(IF roll.rerolls # None THEN roll.rerolls[1][1]
                                ELSE roll.value,
                                code[1][5].reroll[1].condition)
             THEN roll.rerolls # None /\ Len(roll.rerolls[1]) = 1
             ELSE roll.rerolls = None

\* A die was replaced once and its final value still satisfies the
\* condition.
C9_Witness ==
  /\ RerollSucceeded(TRUE)
  /\ \E i \in 1..Len(result[1].trace[1].rolls) :
       /\ result[1].trace[1].rolls[i].rerolls # None
       /\ check_condition(result[1].trace[1].rolls[i].value,
                          code[1][5].reroll[1].condition)

\* C10: with a standard reroll modifier the term either fails with
\* LimitError or ends with every die's final value not satisfying the
\* reroll condition: _apply_rerolls raises nothing but the LimitError, once
\* it has returned no value satisfies the condition, the same holds of the
\* trace returned, and 1d1r1 always ends in LimitError.
C10_StandardReroll ==
  /\ (InReroll(FALSE) /\ pc = "raised" /\ phase = "reroll") =>
       exc[1].cls = "LimitError"
  /\ (InReroll(FALSE) /\ RerollsApplied) =>
       \A i \in 1..Len(rolls) :
         ~check_condition(rolls[i].value, Instr[5].reroll[1].condition)
  /\ RerollSucceeded(FALSE) =>
       \A i \in 1..Len(result[1].trace[1].rolls) :
         ~check_condition(result[1].trace[1].rolls[i].value,
                          code[1][5].reroll[1].condition)
  /\ (pc = "done" /\ text = <<"1", "d", "1", "r", "1">>) =>
       /\ Failed
       /\ result[1].error.type = "LimitError"

\* A die was replaced until its value no longer satisfied the condition.
C10_Witness ==
  /\ RerollSucceeded(FALSE)
  /\ \E i \in 1..Len(result[1].trace[1].rolls) :
       /\ result[1].trace[1].rolls[i].rerolls # None
       /\ ~check_condition(result[1].trace[1].rolls[i].value,
                           code[1][5].reroll[1].condition)

\* _eval_dice is at work on a dice term whose explode modifier carries no
\* explicit condition.
InDefaultExplode ==
  /\ AtInstr("dice")
  /\ Instr[5].explode # None
  /\ Instr[5].explode[1].condition.isMax

\* The maximum of a die of the term: sides, or 1 for a FATE die
DieMaximum(node) == IF node[4] = "dF" THEN 1 ELSE node[3]

\* The explosion loop has left the die: it has a first increment exactly
\* when its value is the maximum, and every increment but the last is at or
\* above the maximum.
ExplosionsSettled(roll, node) ==
  /\ roll.explodes # <<>> <=> roll.value = DieMaximum(node)
  /\ \A k \in 1..Len(roll.explodes) :
       k < Len(roll.explodes) <=> roll.explodes[k].value >= DieMaximum(node)

\* The explosion loop is about to draw a further increment for the die: its
\* value is the maximum and every increment so far is at or above it.
ExplosionsPending(roll, node) ==
  /\ roll.value = DieMaximum(node)
  /\ \A k \in 1..Len(roll.explodes) :
       roll.explodes[k].value >= DieMaximum(node)

\* C11: when the explode modifier carries no explicit condition, a die gets
\* a first explosion increment exactly when its value equals the die's
\* maximum (sides, or 1 for FATE) and a further increment exactly when the
\* most recent increment is at or above that maximum: while the explosions
\* are applied the dice before the current one are settled in that way, the
\* current one is owed its next increment and the later ones have none; once
\* the explosions are applied every die is settled.
C11_DefaultExplodeCondition ==
  InDefaultExplode =>
    /\ phase = "explode" =>
         /\ cnt = Len(rolls[idx].explodes)
         /\ cur = (IF cnt = 0 THEN rolls[idx].value
                   ELSE rolls[idx].explodes[cnt].value)
         /\ \A i \in 1..Len(rolls) :
              IF i < idx THEN ExplosionsSettled(rolls[i], Instr)
              ELSE IF i = idx THEN ExplosionsPending(rolls[i], Instr)
              ELSE rolls[i].explodes = <<>>
    /\ phase = "tail" =>
         \A i \in 1..Len(rolls) : ExplosionsSettled(rolls[i], Instr)

\* The explosions of a FATE term are applied: one die showed 1 and got an
\* increment below 1, another showed less than 1 and got none.
C11_Witness ==
  /\ InDefaultExplode
  /\ phase = "tail"
  /\ Instr[4] = "dF"
  /\ \E i, j \in 1..Len(rolls) :
       /\ rolls[i].value = 1
       /\ Len(rolls[i].explodes) = 1
       /\ rolls[i].explodes[1].value < 1
       /\ rolls[j].value < 1
       /\ rolls[j].explodes = <<>>

\* The indices of s, from i on, at which no alternative of TOKEN_PATTERN
\* matches and which no earlier match (a comment included) covers.
RECURSIVE UnmatchedFrom(_, _)
UnmatchedFrom(s, i) ==
  IF i > Len(s) THEN {}
  ELSE IF TokenMatch(s, i)[1] = 0 THEN {i} \cup UnmatchedFrom(s, i + 1)
  ELSE UnmatchedFrom(s, i + TokenMatch(s, i)[2])

\* The 0-based offsets of the characters of the text that match no lexical
\* pattern
Unmatched(t) == {i - 1 : i \in UnmatchedFrom(Strip(t), 1)}

\* C12: a call on a text that has a character matching no lexical pattern
\* (outside a comment) returns a ParseError Failure whose position is the
\* offset of such a character, never a Success.
C12_UnmatchedCharacterFails ==
  (pc = "done" /\ Unmatched(text) # {}) =>
    /\ Failed
    /\ result[1].error.type = "ParseError"
    /\ result[1].error.position # None
    /\ result[1].error.position[1] \in Unmatched(text)

\* roll_dice has returned a ParseError Failure.
ParseFailed == Failed /\ result[1].error.type = "ParseError"

\* C13: the input field of every ParseError Failure is, character for
\* character, the text passed to roll_dice, leading and trailing whitespace
\* included.
C13_ParseErrorInputUntouched ==
  ParseFailed => result[1].error.input = text

\* The lowered texts of the tokens the call's tokenizer has made of the text
TokenTexts ==
  [k \in 1..Len(parser[1].tokens) |-> Lower(parser[1].tokens[k].text)]

\* The number of tokens of toks that are tok
CountOf(toks, tok) == Cardinality({k \in 1..Len(toks) : toks[k] = tok})

\* Every dice token of toks has a count and a number of sides within the
\* limits of parse_dice, and toks has no more than MAX_RECURSION opening
\* parentheses: no LimitError and no SemanticError can end the parse.
WithinLimits(toks) ==
  /\ CountOf(toks, <<"(">>) <= MAX_RECURSION
  /\ \A k \in 1..Len(toks) :
       (toks[k][1] = "d" /\ toks[k] \notin {<<"d", "h">>, <<"d", "l">>}) =>
         /\ IsDigit(Tail(toks[k])) /\ toks[k] # <<"d", "0", "0">> =>
              IntOf(Tail(toks[k])) \in 1..MAX_SIDES
         /\ (k > 1 /\ IsDigit(toks[k - 1])) =>
              IntOf(toks[k - 1]) \in 1..MAX_DICE

\* A keep/drop marker or a comparator that no number follows
DanglingMarker(toks) ==
  \E k \in 1..Len(toks) :
    /\ toks[k] \in {<<"k", "h">>, <<"k", "l">>, <<"d", "h">>, <<"d", "l">>}
                     \cup ComparatorToks
    /\ (k = Len(toks) \/ ~IsDigit(toks[k + 1]))

\* A binary operator or a unary minus with nothing, a closing parenthesis
\* or a binary operator other than the minus after it
MissingOperand(toks) ==
  \E k \in 1..Len(toks) :
    /\ toks[k] \in {<<"+">>, <<"-">>, <<"*">>, <<"/">>}
    /\ (k = Len(toks)
          \/ toks[k + 1] \in {<<")">>, <<"+">>, <<"*">>, <<"/">>})

\* More opening than closing parentheses
UnmatchedOpen(toks) == CountOf(toks, <<"(">>) > CountOf(toks, <<")">>)

\* More closing than opening parentheses, or a number right after a number
TrailingToken(toks) ==
  \/ CountOf(toks, <<")">>) > CountOf(toks, <<"(">>)
  \/ \E k \in 1..(Len(toks) - 1) : IsDigit(toks[k]) /\ IsDigit(toks[k + 1])

\* The text has one of the defects of syntax the parser reports.
SyntaxDefect(toks) ==
  \/ toks = <<>>
  \/ DanglingMarker(toks)
  \/ MissingOperand(toks)
  \/ UnmatchedOpen(toks)
  \/ TrailingToken(toks)

OpenAt(toks, k) ==
  Cardinality({j \in 1..k : toks[j] = <<"(">>})
    - Cardinality({j \in 1..k : toks[j] = <<")">>})

\* toks never has more than MAX_RECURSION parentheses open.
NeverDeeper(toks) == \A k \in 1..Len(toks) : OpenAt(toks, k) <= MAX_RECURSION

\* roll_dice has returned the LimitError of the parser's depth check.
DepthRejected ==
  /\ Failed
  /\ result[1].error.type = "LimitError"
  /\ result[1].error.message
       = <<"Exceeded maximum recursion depth of ">> \o StrOfNat(MAX_RECURSION)

\* Texts nested to the limit, after a closed group as well, and groups in
\* sequence
DeepestTexts ==
  {Nested(MAX_RECURSION, <<"1">>), Nested(MAX_RECURSION, <<"1", "d", "1">>),
   Groups(MAX_RECURSION + 1),
   <<"(", "1", ")", "*">> \o Nested(MAX_RECURSION, <<"2">>)}

\* Texts nested one deeper than the limit, closed and not
TooDeepTexts ==
  {Nested(MAX_RECURSION + 1, <<"1">>),
   Nested(MAX_RECURSION + 1, <<"1", "d", "1">>),
   Opens(MAX_RECURSION + 1),
   <<"(", "1", ")", "*">> \o Nested(MAX_RECURSION + 1, <<"2">>)}

\* C15: the parser's parenthesis counter is the number of parentheses
\* open: a parse that succeeds leaves the counter at 0; a text that never
\* has more than MAX_RECURSION parentheses open is not rejected for depth,
\* whatever number of groups it has in sequence; a rejection for depth
\* leaves the counter at MAX_RECURSION + 1, the tokenizer in front of the
\* parenthesis that exceeds the limit, and no die rolled; an expression
\* nested MAX_RECURSION deep succeeds, also after a closed group; and
\* MAX_RECURSION + 1 opening parentheses in a row are rejected with
\* LimitError, whether or not they are closed and after a closed group as
\* well.
C15_DepthCounter ==
  /\ pc = "eval" => parser[1].recursion_depth = 0
  /\ pc = "done" =>
       /\ DepthRejected =>
            /\ ~NeverDeeper(TokenTexts)
            /\ parser[1].recursion_depth = MAX_RECURSION + 1
            /\ OpenAt(TokenTexts, parser[1].position) = MAX_RECURSION
            /\ TokenTexts[parser[1].position + 1] = <<"(">>
            /\ draws = 0
       /\ text \in DeepestTexts => Succeeded
       /\ text \in TooDeepTexts => DepthRejected
       /\ text = Opens(MAX_RECURSION) => ParseFailed

\* MAX_RECURSION + 1 groups in sequence have been evaluated.
C15_Witness ==
  /\ Succeeded
  /\ text = Groups(MAX_RECURSION + 1)
  /\ result[1].final = PyInt(MAX_RECURSION + 1)

\* The messages of the validation of parse_dice
ValidationMessages ==
  {<<"Cannot roll more than ">> \o StrOfNat(MAX_DICE) \o <<" dice per term">>,
   <<"Die cannot have more than ">> \o StrOfNat(MAX_SIDES) \o <<" sides">>,
   <<"Must roll at least 1 die">>,
   <<"Die must have at least 1 side">>}

Domain(node) == IF node[4] = "dF" THEN {-1, 0, 1} ELSE 1..node[3]

\* The dice terms of the expression in the order of their evaluation
DiceInstrs == SelectSeq(code, LAMBDA ins : ins[1] = "dice")

\* The die keeps its value and its reroll history.
Untouched(before, after) ==
  /\ after.value = before.value
  /\ after.rerolls = before.rerolls

\* The die's value is replaced and goes to the end of its reroll history.
Superseded(before, after, node) ==
  /\ after.rerolls = Append(before.rerolls, before.value)
  /\ after.value \in Domain(node)

\* The value and the reroll history of every die, as a bag
Histories(rs) ==
  [h \in {<<rs[i].value, rs[i].rerolls>> : i \in 1..Len(rs)} |->
     Cardinality({i \in 1..Len(rs) : <<rs[i].value, rs[i].rerolls>> = h})]

\* A roll of the response shows the value and the history of the die.
SameInResponse(dict, roll) ==
  /\ dict.value = roll.value
  /\ dict.rerolls = IF roll.rerolls = <<>> THEN None ELSE Some(roll.rerolls)

\* One step of the evaluation of a dice term treats the dice as follows.
\* A die rolled shows a value of the domain and has no history.  While the
\* term is evaluated a step leaves the value and the history of a die
\* alone or replaces the value by one of the domain and appends the
\* replaced value to the history of that die.  The trace appended when the
\* term completes holds the dice with their values and histories, every
\* value and every entry of a history in the domain, with a history only
\* under a reroll modifier and then of values that met its condition.
\* The response shows the same values and histories.
DiceStep ==
  /\ (AtInstr("dice") /\ Len(rolls') = Len(rolls) + 1) =>
       /\ rolls'[Len(rolls')].value \in Domain(Instr)
       /\ rolls'[Len(rolls')].rerolls = <<>>
  /\ (AtInstr("dice") /\ Len(rolls') >= Len(rolls)) =>
       /\ \A i \in 1..Len(rolls) :
            \/ Untouched(rolls[i], rolls'[i])
            \/ /\ phase = "reroll"
               /\ i = idx
               /\ Superseded(rolls[i], rolls'[i], Instr)
       /\ phase = "reroll" => ~Untouched(rolls[idx], rolls'[idx])
  /\ Len(traces') = Len(traces) + 1 =>
       /\ AtInstr("dice")
       /\ Histories(traces'[Len(traces')].rolls) = Histories(rolls)
       /\ \A i \in 1..Len(rolls) :
            /\ rolls[i].value \in Domain(Instr)
            /\ Instr[5].reroll = None => rolls[i].rerolls = <<>>
            /\ \A j \in 1..Len(rolls[i].rerolls) :
                 /\ rolls[i].rerolls[j] \in Domain(Instr)
                 /\ check_condition(rolls[i].rerolls[j],
                                    Instr[5].reroll[1].condition)
  /\ (result = None /\ result' # None /\ pc = "eval") =>
       /\ Len(result'[1].trace) = Len(DiceInstrs)
       /\ \A k \in 1..Len(traces) :
            /\ Len(result'[1].trace[k].rolls) = Len(traces[k].rolls)
            /\ \A i \in 1..Len(traces[k].rolls) :
                 /\ SameInResponse(result'[1].trace[k].rolls[i],
                                   traces[k].rolls[i])
                 /\ result'[1].trace[k].rolls[i].value
                      \in Domain(DiceInstrs[k])

\* C19: when the evaluation of a dice term completes, under any
\* combination of modifiers, the value of every die lies in the domain of
\* the die, and each value a reroll replaced stands in the reroll history
\* of that die alone, in the order of the replacements, while the value of
\* the die is the one drawn last.
C19_ValuesInDomain == [][DiceStep]_vars

\* A term with reroll, explode, keep, sort and comparator has succeeded;
\* the die shown first was rerolled once from 1 to 2 and the other one
\* shows the 1 it was rolled with.
C19_Witness ==
  /\ Succeeded
  /\ text = <<"2", "d", "2", "r", "o", "1", "!", "k", "h", "1", "s", "d",
              ">", "=", "2">>
  /\ result[1].trace[1].rolls[1].value = 2
  /\ result[1].trace[1].rolls[1].rerolls = Some(<<1>>)
  /\ result[1].trace[1].rolls[2].value = 1
  /\ result[1].trace[1].rolls[2].rerolls = Some(<<1>>)

\* C20: in the response, every roll of a dice term with a success
\* comparator carries a success flag, and the flag is the comparator applied
\* to the value of the roll, also under a keep/drop or a sort modifier.
C20_SuccessFlagOnEveryRoll ==
  Succeeded =>
    \A k \in 1..Len(DiceInstrs) :
      DiceInstrs[k][5].comparator # None =>
        \A i \in 1..Len(result[1].trace[k].rolls) :
          /\ result[1].trace[k].rolls[i].success # None
          /\ result[1].trace[k].rolls[i].success[1]
               = check_condition(result[1].trace[k].rolls[i].value,
                                 DiceInstrs[k][5].comparator[1])

\* The message of the SemanticError of _apply_keep_drop
KeepDropMessage(count, n) ==
  <<"Cannot keep/drop ">> \o StrOfNat(count) \o <<" from ">> \o StrOfNat(n)
    \o <<" dice">>

\* The expression is one dice term with a keep/drop modifier whose count
\* exceeds (over) or equals (~over) the number of dice of the term.
KeepDropTerm(over) ==
  /\ Len(code) = 1
  /\ code[1][1] = "dice"
  /\ code[1][5].keep # None
  /\ IF over THEN code[1][5].keep[1].count > code[1][2]
     ELSE code[1][5].keep[1].count = code[1][2]

\* The term can reach a ceiling before its keep/drop is applied.
CeilingBeforeKeep ==
  \/ code[1][5].explode # None
  \/ code[1][5].reroll # None /\ ~code[1][5].reroll[1].once

\* The call has failed with the LimitError of the reroll or explosion
\* ceiling.
CeilingFailed ==
  /\ Failed
  /\ result[1].error.type = "LimitError"
  /\ result[1].error.message
       \in {<<"Exceeded maximum rerolls of ">> \o StrOfNat(MAX_REROLLS),
            <<"Exceeded maximum explosions of ">> \o StrOfNat(MAX_EXPLOSIONS)}

\* C21: a keep/drop count above the number of dice of its term makes the
\* call fail with a SemanticError; a count equal to the number of dice is
\* accepted.
C21_KeepDropCountChecked ==
  /\ (pc = "done" /\ KeepDropTerm(TRUE)) =>
       /\ Failed
       /\ result[1].error.type = "SemanticError"
  /\ (pc = "done" /\ KeepDropTerm(FALSE)) =>
       (Failed => result[1].error.type # "SemanticError")

\* C21 amended: the call fails with the SemanticError of the keep/drop
\* unless the reroll or explosion ceiling of the same term is reached
\* first, which gives the LimitError of that ceiling; a term without
\* standard reroll and without explosion always gives the SemanticError.
\* A count equal to the number of dice never gives a SemanticError, and
\* such a term succeeds unless a ceiling is reached.
C21_KeepDropCountCheckedAmended ==
  /\ (pc = "done" /\ KeepDropTerm(TRUE)) =>
       /\ Failed
       /\ IF result[1].error.type = "SemanticError"
          THEN result[1].error.message
                 = KeepDropMessage(code[1][5].keep[1].count, code[1][2])
          ELSE CeilingBeforeKeep /\ CeilingFailed
  /\ (pc = "done" /\ KeepDropTerm(FALSE)) =>
       \/ Succeeded
       \/ CeilingBeforeKeep /\ CeilingFailed

\* Three values were asked of two dice.
C21_Witness ==
  /\ Failed
  /\ text = <<"2", "d", "2", "k", "h", "3">>
  /\ result[1].error.type = "SemanticError"
  /\ result[1].error.message = KeepDropMessage(3, 2)
  /\ draws = 2

\* The total of a die: its current value plus its explosion increments
DieTotal(roll) ==
  roll.value
    + SumSeq([j \in 1..Len(roll.explodes) |-> roll.explodes[j].value])

\* The totals of the dice of a trace
TraceTotals(tr) == [i \in 1..Len(tr.rolls) |-> DieTotal(tr.rolls[i])]

\* A sequence as a multiset
BagOfSeq(seq) ==
  [v \in {seq[i] : i \in 1..Len(seq)} |->
     Cardinality({i \in 1..Len(seq) : seq[i] = v})]

\* The expression is one dice term with a keep/drop modifier and without
\* comparator, and the call has succeeded.
KeptTermSucceeded ==
  /\ Succeeded
  /\ Len(code) = 1
  /\ code[1][1] = "dice"
  /\ code[1][5].keep # None
  /\ code[1][5].comparator = None

\* C22: for N dice and every count K with 0 <= K <= N, kh keeps the K
\* largest totals, kl the K smallest, dh all but the K largest and dl all
\* but the K smallest, as multisets; keptValues has length K for kh and kl
\* and N - K for dh and dl.
C22_KeepDropSelection ==
  KeptTermSucceeded =>
    /\ result[1].trace[1].keptValues # None
    /\ BagOfSeq(result[1].trace[1].keptValues[1])
         = BagOfSeq(KeptSubset(code[1][5].keep[1].type,
                               code[1][5].keep[1].count,
                               SortedDesc(TraceTotals(traces[1]))))
    /\ Len(result[1].trace[1].keptValues[1])
         = IF code[1][5].keep[1].type \in {<<"k", "h">>, <<"k", "l">>}
           THEN code[1][5].keep[1].count
           ELSE code[1][2] - code[1][5].keep[1].count

\* Every value of the first sequence is a value of the second, as
\* multisets.
SubBag(sub, all) ==
  \A i \in 1..Len(sub) :
    Cardinality({j \in 1..Len(sub) : sub[j] = sub[i]})
      <= Cardinality({j \in 1..Len(all) : all[j] = sub[i]})

\* The expression is one dice term without comparator and has succeeded.
SumTermSucceeded ==
  /\ Succeeded
  /\ Len(code) = 1
  /\ code[1][1] = "dice"
  /\ code[1][5].comparator = None

\* C23: the sum of a dice term without comparator.  Under keep/drop it is
\* the sum of the kept values, which are totals of dice (value plus
\* explosion increments).  Without keep/drop it is the sum of the current
\* values alone for a standard or percentile term, and the sum of the
\* current values and all explosion increments for a FATE term.
C23_TermSum ==
  SumTermSucceeded =>
    /\ result[1].trace[1].sum # None
    /\ result[1].final = PyInt(result[1].trace[1].sum[1])
    /\ IF code[1][5].keep # None
       THEN /\ result[1].trace[1].keptValues # None
            /\ result[1].trace[1].sum[1]
                 = SumSeq(result[1].trace[1].keptValues[1])
            /\ SubBag(result[1].trace[1].keptValues[1],
                      TraceTotals(traces[1]))
       ELSE /\ result[1].trace[1].keptValues = None
            /\ result[1].trace[1].sum[1]
                 = IF code[1][4] = "dF" THEN SumSeq(TraceTotals(traces[1]))
                   ELSE SumSeq(TraceValues(traces[1]))

\* A die of two sides showed 2 and exploded into a 1: the increment is in
\* the trace and the sum is 2.
C23_Witness ==
  /\ SumTermSucceeded
  /\ text = <<"1", "d", "2", "!">>
  /\ result[1].trace[1].rolls[1].value = 2
  /\ result[1].trace[1].rolls[1].explodes = Some(<<[value |-> 1]>>)
  /\ result[1].trace[1].sum = Some(2)
  /\ result[1].final = PyInt(2)

\* The case of ComparatorCases with the text t
ComparatorCase(t) == CHOOSE c \in ComparatorCases : c.text = t

\* What C24 says of a finished call on the case c.  After a modifier token
\* the call has failed with a ParseError at the offset of that token, the
\* tokenizer stands at that token or, having consumed it in search of a
\* closing parenthesis, just behind it, and no die was drawn.  After an
\* operator the text is parsed, the term carries the comparator, the
\* operator is the last operation of the expression, and the call succeeds
\* unless the rerolls of the term reach their ceiling.
ComparatorEnds(c) ==
  IF c.tail \in ModifierTails
  THEN /\ ParseFailed
       /\ result[1].error.position = Some(c.position)
       /\ \E k \in {parser[1].position, parser[1].position + 1} :
            parser[1].tokens[k].pos = c.position
       /\ draws = 0
  ELSE /\ Succeeded \/ CeilingFailed
       /\ Succeeded => result[1].type = "success_count"
       /\ Len(DiceInstrs) = 1
       /\ DiceInstrs[1][5].comparator # None
       /\ DiceInstrs[1][5].comparator[1].op
            \o StrOfNat(DiceInstrs[1][5].comparator[1].value)
            = c.comparator
       /\ code[Len(code)] = <<"binary_op", c.tail[1]>>

CompoundSucceeded ==
  /\ Succeeded
  /\ Len(code) = 1
  /\ code[1][1] = "dice"
  /\ code[1][5].explode # None
  /\ code[1][5].explode[1].compound

\* C25: a compound explosion folds the chained explosions of a die into
\* the running total of that die and records no separate explosion entry:
\* no roll in the trace of a term with !! has an explodes list.
C25_CompoundFolds ==
  CompoundSucceeded =>
    \A i \in 1..Len(result[1].trace[1].rolls) :
      result[1].trace[1].rolls[i].explodes = None

\* The call of roll_dice or of roll_die has ended.
Ended ==
  IF sampler = None THEN pc = "done" /\ result # None
  ELSE sampler[1].line \in {"returned", "raised"}

\* The work of a call stays within the limits: a call of roll_die rejects
\* at most MaxAttempts draws; a term has at most as many dice as its count,
\* which is at most MAX_DICE; a die has at most MAX_REROLLS rerolls and at
\* most MAX_EXPLOSIONS explosion rolls; and the draws of a call are at most
\* those of its terms one after the other.
WithinCeilings ==
  /\ sampler # None => sampler[1].attempts <= MaxAttempts
  /\ AtInstr("dice") =>
       /\ Len(rolls) <= Instr[2]
       /\ Instr[2] <= MAX_DICE
       /\ cnt <= (IF phase = "reroll" THEN MAX_REROLLS ELSE MAX_EXPLOSIONS)
       /\ \A i \in 1..Len(rolls) :
            /\ Len(rolls[i].rerolls) <= MAX_REROLLS
            /\ Len(rolls[i].explodes) <= MAX_EXPLOSIONS
  /\ draws <= SumSeq([k \in 1..Len(DiceInstrs) |->
                       DiceInstrs[k][2]
                         * (1 + MAX_REROLLS + MAX_EXPLOSIONS)])

\* C26: every call of roll_dice terminates, for every input and every
\* sequence of draws, and so does every call of roll_die: the call ends,
\* and until then its loops stay within the ceilings.
C26_Terminates == <>Ended /\ []WithinCeilings

\* A call of roll_die has rejected as many draws as the loop allows and
\* has returned through the fallback draw.
C26_Witness ==
  /\ sampler # None
  /\ sampler[1].sides = 255
  /\ sampler[1].line = "returned"
  /\ sampler[1].attempts = MaxAttempts
  /\ sampler[1].value = Some(255)
  /\ sampler[1].ret = Some(255)

\* C27: for every input the parser never has more activations of
\* parse_factor nested in one another than the recursion ceiling allows
\* for, which is what parentheses alone can reach: one activation for each
\* open parenthesis within the limit and one for the factor inside the
\* innermost, or for the parenthesis that is refused.
C27_RecursionBounded ==
  parser # None => parse_activations(Tokenizer(text)) <= MAX_RECURSION + 1

\* The case of OrderCases that the call is on
OrderCase(t) == CHOOSE c \in OrderCases : c.text = t

\* The greatest total of the dice of a trace
GreatestTotal(tr) ==
  CHOOSE m \in {DieTotal(tr.rolls[i]) : i \in 1..Len(tr.rolls)} :
    \A i \in 1..Len(tr.rolls) : DieTotal(tr.rolls[i]) <= m

\* While the term 2d2 with the modifiers of case c is evaluated: no die has
\* a reroll or an explosion while dice are still rolled, none has an
\* explosion while dice are still rerolled; once explosions are rolled no
\* die shows the value 1 that r1 rerolls; and once the explosions are done
\* the dice that have exploded are those whose value after the rerolls is 2.
PhasesInOrder(c) ==
  AtInstr("dice") =>
    /\ phase = "roll" =>
         \A i \in 1..Len(rolls) :
           rolls[i].rerolls = <<>> /\ rolls[i].explodes = <<>>
    /\ phase = "reroll" =>
         \A i \in 1..Len(rolls) : rolls[i].explodes = <<>>
    /\ (phase \in {"explode", "tail"} /\ 1 \in c.units) =>
         \A i \in 1..Len(rolls) : rolls[i].value # 1
    /\ phase = "tail" =>
         \A i \in 1..Len(rolls) :
           rolls[i].explodes # <<>> <=> (2 \in c.units /\ rolls[i].value = 2)

\* The trace of the term 2d2 with the modifiers of case c: kh1 has kept the
\* greatest total, explosions included; the rolls are listed in ascending
\* order when sa is there; the successes are counted on what keep/drop
\* left, and the rolls are marked in the order the sort left them.
TraceInOrder(c, tr) ==
  /\ (3 \in c.units /\ ~c.compared) =>
       /\ tr.keptValues = Some(<<GreatestTotal(tr)>>)
       /\ tr.sum = Some(GreatestTotal(tr))
  /\ 4 \in c.units => tr.rolls[1].value <= tr.rolls[2].value
  /\ c.compared =>
       /\ tr.successes =
            Some(IF 3 \in c.units
                 THEN (IF GreatestTotal(tr) >= 2 THEN 1 ELSE 0)
                 ELSE Cardinality({i \in 1..2 : tr.rolls[i].value >= 2}))
       /\ tr.rolls[1].success = Some(tr.rolls[1].value >= 2)
       /\ tr.rolls[2].success =
            (IF 3 \in c.units THEN None ELSE Some(tr.rolls[2].value >= 2))

\* C28: the modifiers of a dice term are applied in one order whatever
\* their order in the text: a term is parsed to the same node as the term
\* that lists the same modifiers in the order of the grammar; rerolls are
\* complete before the first explosion is rolled, explosions before
\* keep/drop selects, and the rolls are sorted before successes are counted.
C28_ModifierOrder ==
  (text \in OrderTexts /\ parser # None) =>
    /\ code = Compile(parse(Tokenizer(OrderCase(text).canonical)).node)
    /\ PhasesInOrder(OrderCase(text))
    /\ Succeeded => TraceInOrder(OrderCase(text), traces[1])

\* 2d2 with sort, keep, explode and reroll in the reverse of the order of
\* the grammar has succeeded: the first die was rerolled from 1 to 2, both
\* dice have exploded once, the greatest total is counted as the one
\* success and the first roll alone is marked.
C28_Witness ==
  /\ text = <<"2", "d", "2", "s", "a", "k", "h", "1", "!", "r", "1", ">",
              "=", "2">>
  /\ Succeeded
  /\ traces[1].rolls[1].value = 2
  /\ traces[1].rolls[1].rerolls = <<1>>
  /\ traces[1].rolls[1].explodes = <<[value |-> 1]>>
  /\ traces[1].rolls[2].explodes = <<[value |-> 1]>>
  /\ traces[1].successes = Some(1)
  /\ traces[1].rolls[1].success = Some(TRUE)
  /\ traces[1].rolls[2].success = None

\* A dice term whose explosion is penetrating and has the default threshold
PenetratingDefault(node) ==
  /\ node[1] = "dice"
  /\ node[5].explode # None
  /\ node[5].explode[1].penetrating
  /\ node[5].explode[1].condition.isMax

\* The dice have at most one explosion increment each, and the increment is
\* below the die's maximum: at most sides - 1, at most 0 for a FATE die.
OneIncrementEach(node, rs) ==
  \A i \in 1..Len(rs) :
    /\ Len(rs[i].explodes) <= 1
    /\ \A j \in 1..Len(rs[i].explodes) :
         rs[i].explodes[j].value
           <= (IF node[4] = "dF" THEN 0 ELSE node[3] - 1)

\* C29: with a penetrating explosion and the default threshold every die has
\* at most one explosion increment, while its term is evaluated, when the
\* evaluation has stopped at it and in its trace; so the explosion ceiling
\* is never reached by such a term.
C29_PenetratingExplodesOnce ==
  /\ (parser # None /\ ip <= Len(code) /\ PenetratingDefault(code[ip])) =>
       OneIncrementEach(code[ip], rolls)
  /\ \A k \in 1..Len(traces) :
       PenetratingDefault(DiceInstrs[k]) =>
         OneIncrementEach(DiceInstrs[k], traces[k].rolls)
  /\ (Failed /\ \A k \in 1..Len(DiceInstrs) :
                   PenetratingDefault(DiceInstrs[k])) =>
       result[1].error.message
         # <<"Exceeded maximum explosions of ">> \o StrOfNat(MAX_EXPLOSIONS)

\* 1d2!p has succeeded: the die showed 2, the explosion drew 2 again and
\* holds it as 1, and there the chain ended.
C29_Witness ==
  /\ text = <<"1", "d", "2", "!", "p">>
  /\ Succeeded
  /\ draws = 2
  /\ traces[1].rolls[1].value = 2
  /\ traces[1].rolls[1].explodes = <<[value |-> 1]>>
  /\ traces[1].sum = Some(2)

\* The evaluation is at a dice term, or has stopped at one.
AtDice == parser # None /\ ip <= Len(code) /\ code[ip][1] = "dice"

\* The LimitError of _apply_rerolls, and that of _apply_explosions, is on
\* its way to roll_dice or has been returned as a Failure.
RerollCeilingRaised ==
  exc = Some(Raise("LimitError", <<"Exceeded maximum rerolls of ">>
                                   \o StrOfNat(MAX_REROLLS)))

ExplosionCeilingRaised ==
  exc = Some(Raise("LimitError", <<"Exceeded maximum explosions of ">>
                                   \o StrOfNat(MAX_EXPLOSIONS)))

\* C30: the ceilings fire on the count alone.  The LimitError of the rerolls
\* is raised exactly when a die of the term under evaluation has MAX_REROLLS
\* rerolls, that of the explosions exactly when a die has MAX_EXPLOSIONS
\* increments; no die ever has more; and every die of a trace has fewer.
C30_CeilingsOnCount ==
  /\ (RerollCeilingRaised \/ ExplosionCeilingRaised) => AtDice
  /\ AtDice =>
       /\ \A i \in 1..Len(rolls) :
            /\ Len(rolls[i].rerolls) <= MAX_REROLLS
            /\ Len(rolls[i].explodes) <= MAX_EXPLOSIONS
       /\ RerollCeilingRaised <=>
            \E i \in 1..Len(rolls) : Len(rolls[i].rerolls) = MAX_REROLLS
       /\ ExplosionCeilingRaised <=>
            \E i \in 1..Len(rolls) : Len(rolls[i].explodes) = MAX_EXPLOSIONS
  /\ \A k \in 1..Len(traces) :
       \A i \in 1..Len(traces[k].rolls) :
         /\ Len(traces[k].rolls[i].rerolls) <= MAX_REROLLS - 1
         /\ Len(traces[k].rolls[i].explodes) <= MAX_EXPLOSIONS - 1

\* 1d2! has failed with the LimitError of the explosions although the last
\* increment, a 1, does not satisfy the condition.
C30_Witness ==
  /\ text = <<"1", "d", "2", "!">>
  /\ Failed
  /\ result[1].error.type = "LimitError"
  /\ result[1].error.message
       = <<"Exceeded maximum explosions of ">> \o StrOfNat(MAX_EXPLOSIONS)
  /\ Len(rolls[1].explodes) = MAX_EXPLOSIONS
  /\ rolls[1].explodes[MAX_EXPLOSIONS].value = 1

(***************************************************************************)
(* Properties of repeated calls on one text.                               *)
(***************************************************************************)
\* The earlier call i and the finished current call agree on whether the
\* call fails and, when it fails, on the error type and message.
SameFailure(i) ==
  /\ calls[i].ok = result[1].ok
  /\ ~result[1].ok =>
       /\ calls[i].error[1].type = result[1].error.type
       /\ calls[i].error[1].message = result[1].error.message

\* C3: two calls of roll_dice on the same text agree on whether the call
\* fails and, when it fails, on the error type and message, whatever die
\* outcomes they draw.
C3_FailureDeterministic ==
  Returned =>
    \A i \in 1..Len(calls) : calls[i].text = text => SameFailure(i)

\* The text has no division operator, no standard reroll and no explosion
\* among its tokens.
OutcomeFree(t) ==
  \A k \in 1..Len(Tokenizer(t).tokens) :
    Lower(Tokenizer(t).tokens[k].text)
      \notin {<<"/">>, <<"r">>, <<"!">>, <<"!", "!">>, <<"!", "p">>,
              <<"!", "!", "p">>}

\* C3 (amended): for a text without division operator, standard reroll and
\* explosion, two calls agree on whether the call fails and, when it fails,
\* on the error type and message, whatever die outcomes they draw.
C3_FailureDeterministicAmended ==
  (Returned /\ OutcomeFree(text)) =>
    \A i \in 1..Len(calls) : calls[i].text = text => SameFailure(i)

\* Two calls on a text of that kind have drawn different die outcomes and
\* have both failed in the evaluator.
C3_Witness ==
  /\ Failed
  /\ OutcomeFree(text)
  /\ Len(calls) = 1
  /\ calls[1].text = text
  /\ draws > 0
  /\ calls[1].rolls # rolls
  /\ result[1].error.type = "SemanticError"

(***************************************************************************)
(* Properties of sequences of calls on any texts.                          *)
(***************************************************************************)
\* The values roll_dice can return for each text of CallTexts when the
\* call is the first one.
FirstCallResults(t) ==
  IF t = <<"(", "1">>
  THEN {Failure("ParseError",
                <<"Expected '", ")", "' but reached end of input">>,
                Some(2), t)}
  ELSE IF t = <<"0", "d", "1">>
  THEN {Failure("SemanticError", <<"Must roll at least 1 die">>, None, t)}
  ELSE IF t = <<"1", "d", "2", "+", "1", "d", "1", "!">>
  THEN {Failure("LimitError",
                <<"Exceeded maximum explosions of ">>
                  \o StrOfNat(MAX_EXPLOSIONS), None, t)}
  ELSE IF t = <<"-", "1", "/", "0">>
  THEN {Failure("DiceError", <<"Division by zero">>, None, t)}
  ELSE IF t = <<"1", "d", "2", "r", "o", "1">>
  THEN {Success(PyInt(2),
                <<DiceTrace(t, <<DieRoll(2)>>, None, Some(2), None, None)>>)}
         \cup {Success(PyInt(v),
                       <<DiceTrace(t, <<[DieRoll(v) EXCEPT !.rerolls = <<1>>]>>,
                                   None, Some(v), None, None)>>) :
                 v \in 1..2}
  ELSE {Success(PyInt(2),
                <<DiceTrace(<<"2", "d", "1", "k", "h", "1">>,
                            <<DieRoll(1), DieRoll(1)>>, Some(<<1>>), Some(1),
                            None, None)>>)}

\* C17: calls are independent.  Whatever calls went before, failed or not,
\* a call starts with no parser, no AST, no evaluation stack, no trace and
\* no roll of an earlier call, and the value it returns is one of the
\* values the same text yields as the first call.
C17_CallsIndependent ==
  /\ pc = "call" =>
       /\ parser = None
       /\ code = <<>>
       /\ ip = 1
       /\ stack = <<>>
       /\ traces = <<>>
       /\ rolls = <<>>
       /\ phase = "roll"
       /\ exc = None
       /\ result = None
       /\ draws = 0
  /\ pc = "done" =>
       /\ result # None
       /\ result[1] \in FirstCallResults(text)

\* After a call that failed in the parser and one that failed in the
\* evaluator, a call with valid input has succeeded with a rerolled die.
C17_Witness ==
  /\ Succeeded
  /\ Len(calls) = 2
  /\ ~calls[1].ok
  /\ calls[1].error[1].type = "ParseError"
  /\ ~calls[2].ok
  /\ calls[2].error[1].type = "LimitError"
  /\ calls[2].draws > 0
  /\ text = <<"1", "d", "2", "r", "o", "1">>
  /\ result[1].final = PyInt(1)

(***************************************************************************)
(* Properties of one call of CSPRNG.roll_die.                              *)
(***************************************************************************)
RECURSIVE Power(_, _)
Power(x, n) == IF n = 0 THEN 1 ELSE x * Power(x, n - 1)

\* The least q with 8 * q >= n
CeilEighth(n) == CHOOSE q \in 0..n : 8 * q >= n /\ 8 * (q - 1) < n

\* The accepted values of the bytes drawn for a die of the given sides
\* that yield the face f
AcceptedFor(sides, f) ==
  {v \in 0..(bound(sides) - 1) : (v % sides) + 1 = f}

Sampling == sampler # None /\ sampler[1].sides \in 2..MAX_SIDES

\* C18: rejection sampling is unbiased.  For a die of 2 to MAX_SIDES sides
\* the number of bytes drawn is the bit length of sides divided by 8 and
\* rounded up, the bound is the largest multiple of sides not above 256 to
\* the power of that number and is positive, every value returned is a
\* face 1..sides, a value returned from the loop is the accepted value
\* modulo sides plus one, and every face is yielded by the same number
\* bound / sides of accepted values.
C18_RejectionSamplingUnbiased ==
  Sampling =>
    /\ Power(2, bit_length(sampler[1].sides) - 1) <= sampler[1].sides
    /\ sampler[1].sides
         <= Power(2, bit_length(sampler[1].sides) - 1) - 1
              + Power(2, bit_length(sampler[1].sides) - 1)
    /\ bytes_needed(sampler[1].sides)
         = CeilEighth(bit_length(sampler[1].sides))
    /\ bound(sampler[1].sides)
         = (Power(256, bytes_needed(sampler[1].sides)) \div sampler[1].sides)
             * sampler[1].sides
    /\ bound(sampler[1].sides) > 0
    /\ bound(sampler[1].sides) % sampler[1].sides = 0
    /\ sampler[1].raised = None
    /\ sampler[1].line = "returned" =>
         /\ sampler[1].ret # None
         /\ sampler[1].ret[1] \in 1..sampler[1].sides
         /\ sampler[1].ret[1] \in roll_die(sampler[1].sides)
    /\ (sampler[1].line = "returned" /\ sampler[1].attempts < MaxAttempts) =>
         /\ sampler[1].value[1] < bound(sampler[1].sides)
         /\ sampler[1].ret[1]
              = (sampler[1].value[1] % sampler[1].sides) + 1
    /\ (sampler[1].line = "loop" /\ sampler[1].value # None) =>
         /\ sampler[1].value[1] >= bound(sampler[1].sides)
         /\ sampler[1].value[1]
              < Power(256, bytes_needed(sampler[1].sides))
    /\ sampler[1].line = "entry" =>
         \A f \in 1..sampler[1].sides :
           Cardinality(AcceptedFor(sampler[1].sides, f))
             = bound(sampler[1].sides) \div sampler[1].sides

\* A die of 257 sides, for which two bytes are drawn: after one rejected
\* draw the largest accepted value has yielded the face 257.
C18_Witness ==
  /\ Sampling
  /\ sampler[1].sides = 257
  /\ sampler[1].line = "returned"
  /\ sampler[1].attempts = 1
  /\ sampler[1].value = Some(bound(257) - 1)
  /\ sampler[1].ret = Some(257)

====
